---- MODULE Spec2Model ----
(***************************************************************************)
(* Task scheduling and failure-recovery control loop of the automation    *)
(* bot: AzurLaneConfig (module/config/config.py), Filter                   *)
(* (module/base/filter.py) and AzurLaneAutoScript (module/alas.py).        *)
(*                                                                         *)
(* Time is counted in ticks since DEFAULT_TIME; a second is                *)
(* TicksPerSecond ticks, so that a datetime can carry a sub-second part    *)
(* and .replace(microsecond=0) is a real truncation.                       *)
(***************************************************************************)
EXTENDS Integers, Sequences, FiniteSets, TLC

\* ---------------------------------------------------------------- bounds
\* Largest time stamp a stored NextRun or the clock takes.
MaxTime == 4
\* Resolution of the clock below one second.
TicksPerSecond == 2
\* Scale of the model's minute (the unit of TaskHoardingDuration).
SecondsPerMinute == 1
\* Largest configured Alas.Optimization.TaskHoardingDuration, in minutes.
MaxHoardingMinutes == 1
\* Largest number of '>'-separated tokens of SCHEDULER_PRIORITY.
MaxPriority == 2

\* ------------------------------------------------------- program constants
\* module/config/utils.py: DEFAULT_TIME = datetime(2020, 1, 1, 0, 0), the epoch
\* of the model's clock.
DEFAULT_TIME == 0
\* A stored NextRun that parse_value() could not turn into a datetime (it stays
\* a string): any value for which isinstance(next_run, datetime) is false.
NotADatetime == -1

\* The task commands of the profile (top-level keys of config.data; the
\* Scheduler.Command of a task is its key).
Commands == {"Restart", "Dungeon", "Rogue"}

\* Tokens a SCHEDULER_PRIORITY string is made of, as written by its author.
PriorityTokens == {"Restart", "Dungeon", "Rogue", ""}

VARIABLES
    data,                 \* config.data: command -> [Enable, NextRun]
    order,                \* iteration order of config.data (dict order)
    SCHEDULER_PRIORITY,   \* the priority string, as its '>'-separated tokens
    TaskHoardingDuration, \* Alas.Optimization.TaskHoardingDuration (minutes)
    is_hoarding_task,     \* AzurLaneConfig.is_hoarding_task (class attribute)
    now,                  \* datetime.now()
    pending_task,         \* config.pending_task
    waiting_task,         \* config.waiting_task
    call,                 \* the last get_next() call: its inputs and outcome
    changed,              \* the config file changed since start_watching()
    WhenTaskQueueEmpty,   \* Alas.Optimization.WhenTaskQueueEmpty
    pc,                   \* where the process is in loop() / get_next_task() / run()
    task,                 \* config.task: the Function selected last
    is_first_task,        \* AzurLaneAutoScript.is_first_task
    failure_record,       \* AzurLaneAutoScript.failure_record (absent key = 0)
    stop_event,           \* AzurLaneAutoScript.stop_event.is_set()
    server,               \* whether the game server is reachable (environment)
    checker,              \* ServerChecker: last observation, pending recovery
    site,                 \* the call site run() returns to: "task" or "idle"
    success,              \* the value run() returns
    last,                 \* the last run() call: command, outcome, hooks it ran
    reason,               \* why the process ended
    notified,             \* calls of handle_notify so far
    streak,               \* history: task bodies that failed in a row, per task
    outages,              \* server outages so far
    phase,                \* history of loop(): "fresh", then "waited" (an idle
                          \* wait started), then "executed" (a task was run
                          \* or skipped)
    recalled,             \* history of loop(): Restart was called for a
                          \* recovered server and no task body has run since
    cfg,                  \* one AzurLaneConfig object over the stored data
    stuck,                \* Device.stuck_timer, the app, and what the last
                          \* stuck_record_check() did
    pledge                \* history of loop(): the tasks whose fault made
                          \* run() call Restart since the last Restart
                          \* body, and the task whose elapsed wait made
                          \* get_next_task() call Restart, if no task
                          \* body has run since

schedVars == <<data, order, SCHEDULER_PRIORITY, TaskHoardingDuration,
               is_hoarding_task, now, pending_task, waiting_task, call,
               changed>>

loopVars == <<WhenTaskQueueEmpty, pc, task, is_first_task, failure_record,
              stop_event, server, checker, site, success, last, reason,
              notified, streak, outages, phase>>

loopVarsButPc == <<WhenTaskQueueEmpty, task, is_first_task, failure_record,
                   stop_event, server, checker, site, success, last, reason,
                   notified, streak, outages, phase>>

vars == <<schedVars, loopVars, recalled, cfg, pledge, stuck>>

\* ------------------------------------------------------------- helpers
Max(a, b) == IF a >= b THEN a ELSE b

\* str.lower() on the strings of the model.
Lower(s) ==
    CASE s = "Restart" -> "restart"
      [] s = "Dungeon" -> "dungeon"
      [] s = "Rogue" -> "rogue"
      [] OTHER -> s

\* datetime.replace(microsecond=0)
ReplaceMicrosecond0(t) == t - (t % TicksPerSecond)

\* timedelta(minutes=m)
Minutes(m) == m * SecondsPerMinute * TicksPerSecond

\* ------------------------------------------------- config.py: Function
\* Variant: every task counts as enabled.
Function_AlwaysEnabled(d, c) ==
    [command |-> c, enable |-> TRUE, next_run |-> d[c].NextRun]

\* Function.__init__: the scheduler view of one task of config.data.
Function(d, c) ==
    [command |-> c, enable |-> d[c].Enable, next_run |-> d[c].NextRun]

\* Function.__eq__: same command and same next_run.
FunctionEq(f, g) == f.command = g.command /\ f.next_run = g.next_run

\* `obj not in out` of Filter.apply, which compares with Function.__eq__.
InList(f, out) == \E i \in 1..Len(out) : FunctionEq(out[i], f)

\* isinstance(func.next_run, datetime)
IsDatetime(t) == t # NotADatetime

\* -------------------------------------------------- filter.py: Filter
\* Variant: the empty token is parsed like any other (to an empty value,
\* which apply_filter_to_obj skips).
ParseFilter_NoSentinel(string) == <<Lower(string)>>

\* Filter.parse_filter with regex (.*) and attr ["command"], no presets:
\* the regex matches every string, so only the empty token is invalid.
ParseFilter(string) ==
    IF Lower(string) # ""
    THEN <<Lower(string)>>
    ELSE <<"1nVa1d">>

\* Filter.load: one parsed filter per raw token.
FilterLoad(raw) == [i \in 1..Len(raw) |-> ParseFilter(raw[i])]

\* Filter.apply_filter_to_obj: every non-empty value equals the lowered
\* attribute.
ApplyFilterToObj(obj, filter) ==
    \A i \in 1..Len(filter) :
        filter[i] = "" \/ Lower(obj.command) = filter[i]

\* The inner loop of Filter.apply for one filter: append the matching objects
\* that are not yet in out, in the order of objs.
RECURSIVE ApplyOne(_, _, _, _)
ApplyOne(objs, filter, i, out) ==
    IF i > Len(objs) THEN out
    ELSE ApplyOne(objs, filter, i + 1,
            IF ApplyFilterToObj(objs[i], filter) /\ ~InList(objs[i], out)
            THEN Append(out, objs[i])
            ELSE out)

\* Filter.apply (func=None): the filters left to right.
RECURSIVE ApplyFrom(_, _, _, _)
ApplyFrom(objs, filters, k, out) ==
    IF k > Len(filters) THEN out
    ELSE ApplyFrom(objs, filters, k + 1, ApplyOne(objs, filters[k], 1, out))

\* A sequence back to front.
Reverse(s) == [i \in 1..Len(s) |-> s[Len(s) + 1 - i]]

\* Variant: the filters applied from the last token to the first.
FilterApply_LastTokenFirst(raw, objs) ==
    ApplyFrom(objs, Reverse(FilterLoad(raw)), 1, <<>>)

FilterApply(raw, objs) == ApplyFrom(objs, FilterLoad(raw), 1, <<>>)

\* ------------------------------------------- config.py: AzurLaneConfig
\* AzurLaneConfig.hoarding
Hoarding(minutes) == Minutes(Max(minutes, 0))

\* Variant: the hoarding window is not taken off.
EffectiveNow_NoShift(t, minutes, flag) == t

\* `now` of get_next_task: shifted back while the hoarding flag is set.
EffectiveNow(t, minutes, flag) == IF flag THEN t - Hoarding(minutes) ELSE t

\* The classification loop of get_next_task over config.data.values().
RECURSIVE Classify(_, _, _, _, _)
Classify(d, ord, t, i, acc) ==
    IF i > Len(ord) THEN acc
    ELSE LET func == Function(d, ord[i]) IN
         Classify(d, ord, t, i + 1,
            IF ~func.enable THEN acc
            ELSE IF ~IsDatetime(func.next_run)
                 THEN [acc EXCEPT !.error = Append(@, func)]
            ELSE IF func.next_run < t
                 THEN [acc EXCEPT !.pending = Append(@, func)]
            ELSE [acc EXCEPT !.waiting = Append(@, func)])

\* sorted(waiting, key=next_run): a stable insertion sort.
RECURSIVE InsertSorted(_, _)
InsertSorted(s, f) ==
    IF s = <<>> THEN <<f>>
    ELSE IF Head(s).next_run <= f.next_run
         THEN <<Head(s)>> \o InsertSorted(Tail(s), f)
         ELSE <<f>> \o s

RECURSIVE SortedByNextRun(_)
SortedByNextRun(s) ==
    IF s = <<>> THEN <<>>
    ELSE InsertSorted(SortedByNextRun(SubSeq(s, 1, Len(s) - 1)), s[Len(s)])

\* AzurLaneConfig.get_next_task: [pending |-> pending_task, waiting |->
\* waiting_task].
get_next_task(d, ord, prio, minutes, flag, t) ==
    LET c == Classify(d, ord, EffectiveNow(t, minutes, flag), 1,
                      [pending |-> <<>>, waiting |-> <<>>, error |-> <<>>])
        pending == IF c.pending # <<>> THEN FilterApply(prio, c.pending)
                   ELSE c.pending
        waiting == IF c.waiting # <<>>
                   THEN SortedByNextRun(FilterApply(prio, c.waiting))
                   ELSE c.waiting
    IN  [pending |-> IF c.error # <<>> THEN c.error \o pending ELSE pending,
         waiting |-> waiting]

\* Variant: the waiting task is advanced in place (no deepcopy), so the
\* waiting list holds the advanced task.
get_next_NoCopy(d, ord, prio, minutes, flag, t) ==
    LET q == get_next_task(d, ord, prio, minutes, flag, t) IN
    IF q.pending # <<>>
    THEN [kind |-> "task", task |-> q.pending[1], from |-> "pending",
          pending |-> q.pending, waiting |-> q.waiting, hoarding |-> FALSE]
    ELSE IF q.waiting # <<>>
    THEN [kind |-> "task",
          task |-> [q.waiting[1] EXCEPT !.next_run =
                        ReplaceMicrosecond0(@ + Hoarding(minutes))],
          from |-> "waiting",
          pending |-> q.pending,
          waiting |-> [q.waiting EXCEPT ![1].next_run =
                          ReplaceMicrosecond0(@ + Hoarding(minutes))],
          hoarding |-> TRUE]
    ELSE [kind |-> "raise", task |-> [command |-> "Unknown", enable |-> FALSE,
                                      next_run |-> DEFAULT_TIME],
          from |-> "none",
          pending |-> q.pending, waiting |-> q.waiting, hoarding |-> TRUE]

\* AzurLaneConfig.get_next: the task returned (kind "task") or
\* RequestHumanTakeover raised (kind "raise"), the lists and the flag it leaves.
get_next(d, ord, prio, minutes, flag, t) ==
    LET q == get_next_task(d, ord, prio, minutes, flag, t) IN
    IF q.pending # <<>>
    THEN [kind |-> "task", task |-> q.pending[1], from |-> "pending",
          pending |-> q.pending, waiting |-> q.waiting, hoarding |-> FALSE]
    ELSE IF q.waiting # <<>>
    THEN [kind |-> "task",
          task |-> [q.waiting[1] EXCEPT !.next_run =
                        ReplaceMicrosecond0(@ + Hoarding(minutes))],
          from |-> "waiting",
          pending |-> q.pending, waiting |-> q.waiting, hoarding |-> TRUE]
    ELSE [kind |-> "raise", task |-> [command |-> "Unknown", enable |-> FALSE,
                                      next_run |-> DEFAULT_TIME],
          from |-> "none",
          pending |-> q.pending, waiting |-> q.waiting, hoarding |-> TRUE]

\* AzurLaneConfig.config_override: a NextRun later than the limit (24 hours
\* less one second for the tasks of this profile) becomes the current second.
DayLimit == Minutes(24 * 60) - TicksPerSecond

\* Variant: no NextRun is limited.
ConfigOverride_NoLimit(d, t) == d

ConfigOverride(d, t) ==
    [c \in DOMAIN d |->
        IF IsDatetime(d[c].NextRun)
           /\ d[c].NextRun > ReplaceMicrosecond0(t) + DayLimit
        THEN [d[c] EXCEPT !.NextRun = ReplaceMicrosecond0(t)]
        ELSE d[c]]

\* Variant: force_call is ignored, a disabled task is not called.
task_call_OnlyIfEnabled(d, c, force_call, t) ==
    IF c \notin DOMAIN d
    THEN [raised |-> TRUE, called |-> FALSE, data |-> d]
    ELSE IF d[c].Enable
    THEN [raised |-> FALSE, called |-> TRUE,
          data |-> [ConfigOverride(d, t) EXCEPT
                       ![c] = [Enable |-> TRUE,
                               NextRun |-> ReplaceMicrosecond0(t)]]]
    ELSE [raised |-> FALSE, called |-> FALSE, data |-> d]

\* Variant: calling a task the user has disabled raises ScriptError.
task_call_RaisesIfDisabled(d, c, force_call, t) ==
    IF c \notin DOMAIN d \/ ~d[c].Enable
    THEN [raised |-> TRUE, called |-> FALSE, data |-> d]
    ELSE [raised |-> FALSE, called |-> TRUE,
          data |-> [ConfigOverride(d, t) EXCEPT
                       ![c] = [Enable |-> TRUE,
                               NextRun |-> ReplaceMicrosecond0(t)]]]

\* Variant: the task is enabled but its NextRun is left as stored.
task_call_KeepsNextRun(d, c, force_call, t) ==
    IF c \notin DOMAIN d
    THEN [raised |-> TRUE, called |-> FALSE, data |-> d]
    ELSE IF force_call \/ d[c].Enable
    THEN [raised |-> FALSE, called |-> TRUE,
          data |-> [ConfigOverride(d, t) EXCEPT ![c].Enable = TRUE]]
    ELSE [raised |-> FALSE, called |-> FALSE, data |-> d]

\* AzurLaneConfig.task_call with its update(): [raised, called, data].
\* update() reloads (config_override), applies the overlay and saves.
task_call(d, c, force_call, t) ==
    IF c \notin DOMAIN d
    THEN [raised |-> TRUE, called |-> FALSE, data |-> d]
    ELSE IF force_call \/ d[c].Enable
    THEN [raised |-> FALSE, called |-> TRUE,
          data |-> [ConfigOverride(d, t) EXCEPT
                       ![c] = [Enable |-> TRUE,
                               NextRun |-> ReplaceMicrosecond0(t)]]]
    ELSE [raised |-> FALSE, called |-> FALSE, data |-> d]

\* AzurLaneConfig.task_delay with its update(), for the run time `run` the
\* caller's arguments add up to: NextRun of task c becomes min(run) cut to
\* the second.
task_delay(d, c, run, t) ==
    [ConfigOverride(d, t) EXCEPT ![c].NextRun = ReplaceMicrosecond0(run)]

\* ------------------------------------------------------------ state space
Canonical == <<"Restart", "Dungeon", "Rogue">>

\* Orders of the keys of config.data.
Orders == {Canonical, Reverse(Canonical)}

TimeStamps == 0..MaxTime

\* A task as stored: disabled tasks keep the default NextRun.
TaskRecords ==
    {[Enable |-> FALSE, NextRun |-> DEFAULT_TIME]}
    \cup {[Enable |-> TRUE, NextRun |-> t] : t \in TimeStamps \cup {NotADatetime}}

\* Priority strings of up to MaxPriority tokens, no token twice.
PriorityStrings ==
    UNION {{p \in [1..n -> PriorityTokens] :
               \A i, j \in 1..n : i # j => p[i] # p[j]} : n \in 1..MaxPriority}

NoTask == [command |-> "Unknown", enable |-> FALSE, next_run |-> DEFAULT_TIME]

NoCall == [made |-> FALSE, flag |-> FALSE, now |-> 0, kind |-> "none",
           from |-> "none", task |-> NoTask]

\* The device of the specifications that do not follow its stuck timer.
NoDevice == [made |-> FALSE]

NoPledge == [fault |-> {}, waited |-> ""]

NoRun == [command |-> "", outcome |-> "", postprocess |-> 0, saved |-> 0,
          notified |-> 0, restart |-> FALSE]

\* The control loop before loop() is entered; in the specification of
\* get_next() alone it stays there.
LoopIdle ==
    /\ WhenTaskQueueEmpty = "stay_there"
    /\ pc = "top"
    /\ task = NoTask
    /\ is_first_task = TRUE
    /\ failure_record = [c \in Commands |-> 0]
    /\ stop_event = FALSE
    /\ server = TRUE
    /\ checker = [available |-> TRUE, recover |-> FALSE]
    /\ site = "task"
    /\ success = TRUE
    /\ last = NoRun
    /\ reason = ""
    /\ notified = 0
    /\ streak = [c \in Commands |-> 0]
    /\ outages = 0
    /\ phase = "fresh"

\* The config object of the specifications that do not follow it.
NoCfg == [open |-> FALSE]

\* ------------------------------------- specification of get_next() alone
InitNext ==
    /\ data \in [Commands -> TaskRecords]
    /\ order \in Orders
    /\ SCHEDULER_PRIORITY \in PriorityStrings
    /\ TaskHoardingDuration \in (-1)..MaxHoardingMinutes
    /\ is_hoarding_task \in BOOLEAN
    /\ now = MaxTime - 1
    /\ pending_task = <<>>
    /\ waiting_task = <<>>
    /\ call = NoCall
    /\ changed = FALSE
    /\ LoopIdle
    /\ recalled = FALSE
    /\ pledge = NoPledge
    /\ stuck = NoDevice
    /\ cfg = NoCfg

\* config.get_next()
GetNext ==
    LET r == get_next(data, order, SCHEDULER_PRIORITY, TaskHoardingDuration,
                      is_hoarding_task, now) IN
    /\ pending_task' = r.pending
    /\ waiting_task' = r.waiting
    /\ is_hoarding_task' = r.hoarding
    /\ call' = [made |-> TRUE, flag |-> is_hoarding_task, now |-> now,
                kind |-> r.kind, from |-> r.from, task |-> r.task]
    /\ UNCHANGED <<data, order, SCHEDULER_PRIORITY, TaskHoardingDuration, now,
                   changed>>
    /\ UNCHANGED loopVars
    /\ UNCHANGED <<recalled, cfg, pledge, stuck>>

NextNext == GetNext

SpecNext == InitNext /\ [][NextNext]_vars

\* ======================================================================
\* alas.py: AzurLaneAutoScript
\* ======================================================================
\* Bounds of the control loop.
\* Last second of the clock in the control loop.
MaxClockSeconds == 15
\* Largest number of server outages.
MaxOutages == 1
\* Longest delay a task body gives its own task, in minutes.
MaxDelayMinutes == 1
\* Longest time to the next server update, in minutes.
MaxUpdateMinutes == 1

\* time.sleep(5) of wait_until, device.sleep(10) of run, and the second
\* wait_until adds to its deadline.
PollSeconds == 5
CooldownSeconds == 10
WaitMarginSeconds == 1
\* Time a task body takes when it does not end at once, in seconds.
BodySeconds == 5

Seconds(n) == n * TicksPerSecond

MaxClock == Seconds(MaxClockSeconds)

\* The clock when the process starts (two and a half seconds after
\* DEFAULT_TIME), and a NextRun that is still ahead then.
LoopStart == Seconds(2) + 1

LoopFuture == Seconds(4)

\* What a task body (or device.screenshot()) does: it returns, or raises.
Outcomes ==
    {"return", "TaskEnd", "GameNotRunningError", "GameStuckError",
     "GameTooManyClickError", "GameBugError", "GamePageUnknownError",
     "HandledError", "ScriptError", "RequestHumanTakeover", "Exception"}

\* ServerChecker (module/server_checker.py): an observation of the server.
\* An observation that finds the server back after an outage was observed
\* marks the recovery.
Observe(ch, up) ==
    [available |-> up, recover |-> ch.recover \/ (~ch.available /\ up)]

\* The except clauses of AzurLaneAutoScript.run (lines 127-197), each as what
\* it does:
\*   result       what run() does next: "True"/"False" returned, "exit" = exit(1)
\*   postprocess  calls of error_postprocess()
\*   saved        calls of save_error_log()
\*   notify       calls of handle_notify()
\*   restart      config.task_call('Restart')
\*   sleep        device.sleep(10)
\*   check        checker.check_now() and is_available()
\*   wait         checker.wait_until_available()
Handled == [result |-> "True", postprocess |-> 0, saved |-> 0, notify |-> 0,
            restart |-> FALSE, sleep |-> FALSE, check |-> FALSE,
            wait |-> FALSE]

\* Variant: the end of a task body is taken for a failure.
OnTaskEnd_AsFailure == [Handled EXCEPT !.result = "False"]

\* lines 127-129: the body returned, or raised TaskEnd.
OnTaskEnd == Handled

\* lines 130-133
OnGameNotRunningError == [Handled EXCEPT !.result = "False", !.restart = TRUE]

\* lines 134-141: GameStuckError, GameTooManyClickError
OnGameStuckError ==
    [Handled EXCEPT !.result = "False", !.saved = 1, !.restart = TRUE,
                    !.sleep = TRUE]

\* lines 142-149
OnGameBugError ==
    [Handled EXCEPT !.result = "False", !.saved = 1, !.restart = TRUE,
                    !.sleep = TRUE]

\* lines 150-164, for the server as check_now() finds it
OnGamePageUnknownError(up) ==
    IF up
    THEN [Handled EXCEPT !.result = "exit", !.saved = 1, !.notify = 1,
                         !.check = TRUE]
    ELSE [Handled EXCEPT !.result = "False", !.check = TRUE, !.wait = TRUE]

\* lines 165-167
OnHandledError == [Handled EXCEPT !.result = "False"]

\* lines 168-178
OnScriptError ==
    [Handled EXCEPT !.result = "exit", !.postprocess = 1, !.saved = 1,
                    !.notify = 1]

\* Variant: RequestHumanTakeover without the cleanup hook.
OnRequestHumanTakeover_NoCleanup ==
    [Handled EXCEPT !.result = "exit", !.notify = 1]

\* lines 179-187
OnRequestHumanTakeover ==
    [Handled EXCEPT !.result = "exit", !.postprocess = 1, !.notify = 1]

\* Variant: an unclassified exception without the error log.
OnException_NoErrorLog ==
    [Handled EXCEPT !.result = "exit", !.postprocess = 1, !.notify = 1]

\* lines 188-197: any other exception
OnException ==
    [Handled EXCEPT !.result = "exit", !.postprocess = 1, !.saved = 1,
                    !.notify = 1]

\* The dispatch of run() on the outcome of the task body.
RunHandler(outcome, up) ==
    CASE outcome \in {"return", "TaskEnd"} -> OnTaskEnd
      [] outcome = "GameNotRunningError" -> OnGameNotRunningError
      [] outcome \in {"GameStuckError", "GameTooManyClickError"} ->
            OnGameStuckError
      [] outcome = "GameBugError" -> OnGameBugError
      [] outcome = "GamePageUnknownError" -> OnGamePageUnknownError(up)
      [] outcome = "HandledError" -> OnHandledError
      [] outcome = "ScriptError" -> OnScriptError
      [] outcome = "RequestHumanTakeover" -> OnRequestHumanTakeover
      [] OTHER -> OnException

\* Variant: a success keeps the count.
FailureCount_NoReset(failed, ok) == IF ok THEN failed ELSE failed + 1

\* loop(), lines 373-375: the failure count of the task after an execution.
FailureCount(failed, ok) == IF ok THEN 0 ELSE failed + 1

\* Variant: the count is stored for every task.
RecordFailure_EveryTask(record, c, failed) == [t \in DOMAIN record |-> failed]

\* loop(), line 375: deep_set(self.failure_record, keys=task, value=failed).
RecordFailure(record, c, failed) == [record EXCEPT ![c] = failed]

\* Variant: the escalation one failure late.
ShouldEscalate_Late(failed) == failed > 3

\* loop(), line 378: the escalation threshold.
ShouldEscalate(failed) == failed >= 3

\* Variant: the stop event is never seen.
ShouldStop_Never(ev) == FALSE

\* loop() lines 327-328 and wait_until() lines 229-230: the stop event is
\* there and set.
ShouldStop(ev) == ev

\* Variant: Restart is run like any other first task.
SkipFirstRestart_Never(first, command) == FALSE

\* loop(), line 352: Restart as the first task of the process is skipped.
SkipFirstRestart(first, command) == first /\ command = "Restart"

\* Variant: a changed config file does not end the idle wait.
AfterPoll_IgnoreReload(should_reload) == "wait"

\* wait_until() lines 237-238 with get_next_task() lines 265-267 (and 277-279,
\* 284-286, 291-293): after the sleep of a poll, a config file that changed
\* ends the wait and the task is selected again; otherwise the wait goes on.
AfterPoll(should_reload) == IF should_reload THEN "select" ELSE "wait"

Terminal == {"stopped", "exit0", "exit1", "uncaught"}

\* The values WhenTaskQueueEmpty takes (the last one is no valid method).
IdleMethods == {"close_game", "goto_main", "stay_there", "invalid"}

\* Stored tasks a profile starts the loop with.
LoopRecords ==
    {[Enable |-> FALSE, NextRun |-> DEFAULT_TIME],
     [Enable |-> TRUE, NextRun |-> DEFAULT_TIME],
     [Enable |-> TRUE, NextRun |-> LoopFuture],
     [Enable |-> TRUE, NextRun |-> NotADatetime]}

LoopPriorities == {<<"Restart", "Dungeon", "Rogue">>}

\* The process starts: AzurLaneAutoScript.__init__, class attributes as
\* defined.
Init ==
    /\ data \in [Commands -> LoopRecords]
    /\ ~data["Rogue"].Enable
    /\ order = Canonical
    /\ SCHEDULER_PRIORITY \in LoopPriorities
    /\ TaskHoardingDuration \in 0..MaxHoardingMinutes
    /\ is_hoarding_task = TRUE
    /\ now = LoopStart
    /\ pending_task = <<>>
    /\ waiting_task = <<>>
    /\ call = NoCall
    /\ changed = FALSE
    /\ WhenTaskQueueEmpty \in IdleMethods
    /\ pc = "top"
    /\ task = NoTask
    /\ is_first_task = TRUE
    /\ failure_record = [c \in Commands |-> 0]
    /\ stop_event = FALSE
    /\ server = TRUE
    /\ checker = [available |-> TRUE, recover |-> FALSE]
    /\ site = "task"
    /\ success = TRUE
    /\ last = NoRun
    /\ reason = ""
    /\ notified = 0
    /\ streak = [c \in Commands |-> 0]
    /\ outages = 0
    /\ phase = "fresh"
    /\ recalled = FALSE
    /\ pledge = NoPledge
    /\ stuck = NoDevice
    /\ cfg = NoCfg

\* ------------------------------------------------------------ environment
\* The GUI sets the stop event (the loop reads it at the top of loop() and in
\* wait_until()).
SetStopEvent ==
    /\ pc \in {"top", "wait"}
    /\ ~stop_event
    /\ stop_event' = TRUE
    /\ UNCHANGED <<schedVars, WhenTaskQueueEmpty, pc, task, is_first_task,
                   failure_record, server, checker, site, success, last,
                   reason, notified, streak, outages>>
    /\ UNCHANGED phase
    /\ UNCHANGED <<recalled, cfg, pledge, stuck>>

\* The game server goes down, or comes back (where the checker looks next).
ServerChange ==
    /\ pc \in {"top", "available", "ready", "run", "server_wait", "return"}
    /\ \/ server /\ outages < MaxOutages /\ server' = FALSE
          /\ outages' = outages + 1
       \/ ~server /\ server' = TRUE /\ outages' = outages
    /\ UNCHANGED <<schedVars, WhenTaskQueueEmpty, pc, task, is_first_task,
                   failure_record, stop_event, checker, site, success, last,
                   reason, notified, streak>>
    /\ UNCHANGED phase
    /\ UNCHANGED <<recalled, cfg, pledge, stuck>>

\* The config file is saved while the process is in its idle wait (the
\* watcher compares the time of the file with the one at start_watching()):
\* it is saved as it was, or with the task the process waits for disabled
\* (the NextRun of a disabled task is read nowhere: it is written as in Init).
ConfigChanged ==
    /\ pc = "wait"
    /\ ~changed
    /\ changed' = TRUE
    /\ \E disable \in BOOLEAN :
          data' = IF disable
                  THEN [data EXCEPT ![task.command] =
                           [Enable |-> FALSE, NextRun |-> DEFAULT_TIME]]
                  ELSE data
    /\ UNCHANGED <<order, SCHEDULER_PRIORITY, TaskHoardingDuration,
                   is_hoarding_task, now, pending_task, waiting_task, call>>
    /\ UNCHANGED loopVars
    /\ UNCHANGED <<recalled, cfg, pledge, stuck>>

\* ------------------------------------------------------------------ loop()
\* loop(), lines 327-331: the stop event ends the loop.
LoopStop ==
    /\ pc = "top"
    /\ ShouldStop(stop_event)
    /\ pc' = "stopped"
    /\ reason' = "stop_event"
    /\ UNCHANGED <<schedVars, WhenTaskQueueEmpty, task, is_first_task,
                   failure_record, stop_event, server, checker, site, success,
                   last, notified, streak, outages>>
    /\ UNCHANGED phase
    /\ UNCHANGED <<recalled, cfg, pledge, stuck>>

\* loop(), lines 335-340, after the stop check: wait for the server (the
\* process stays in wait_until_available() while the server is down), and
\* call Restart when it has recovered.
LoopServer ==
    /\ \/ pc = "top" /\ ~ShouldStop(stop_event)
       \/ pc = "available" /\ server
    /\ LET ch == Observe(checker, TRUE)
           c == task_call(data, "Restart", TRUE, now) IN
       IF ~server
       THEN /\ pc' = "available"
            /\ checker' = Observe(checker, FALSE)
            /\ UNCHANGED <<reason, data>>
       ELSE
       /\ checker' = [ch EXCEPT !.recover = FALSE]
       /\ IF ch.recover
          THEN IF c.raised
               THEN /\ pc' = "uncaught"
                    /\ reason' = "ScriptError"
                    /\ data' = data
               ELSE /\ pc' = "select"
                    /\ reason' = reason
                    /\ data' = c.data
          ELSE /\ pc' = "select"
               /\ reason' = reason
               /\ data' = data
    /\ UNCHANGED <<order, SCHEDULER_PRIORITY, TaskHoardingDuration,
                   is_hoarding_task, now, pending_task, waiting_task, call,
                   WhenTaskQueueEmpty, task, is_first_task, failure_record,
                   stop_event, server, site, success, last, notified, streak, outages>>
    /\ UNCHANGED phase
    /\ recalled' = (recalled \/ (server /\ pc' = "select"
                                    /\ Observe(checker, TRUE).recover))
    /\ UNCHANGED <<cfg, pledge, stuck>>
    /\ UNCHANGED changed

\* Variant: the flag is left as get_next() set it.
FlagOnReturn_Kept(flag) == flag

\* get_next_task(), line 296, before it returns the task to loop():
\* AzurLaneConfig.is_hoarding_task = False.
FlagOnReturn(flag) == FALSE

\* get_next_task(), lines 248-258 and 294-297: select a task.  A task that is
\* not due starts the idle wait; RequestHumanTakeover of get_next() and the
\* TypeError of comparing a NextRun that is no datetime are caught nowhere.
Select ==
    /\ pc = "select"
    /\ LET r == get_next(data, order, SCHEDULER_PRIORITY, TaskHoardingDuration,
                         is_hoarding_task, now) IN
       /\ pending_task' = r.pending
       /\ waiting_task' = r.waiting
       /\ call' = [made |-> TRUE, flag |-> is_hoarding_task, now |-> now,
                   kind |-> r.kind, from |-> r.from, task |-> r.task]
       /\ IF r.kind = "raise"
          THEN /\ pc' = "uncaught"
               /\ reason' = "RequestHumanTakeover"
               /\ is_hoarding_task' = r.hoarding
               /\ UNCHANGED <<task, is_first_task, site>>
          ELSE IF ~IsDatetime(r.task.next_run)
          THEN /\ pc' = "uncaught"
               /\ reason' = "TypeError"
               /\ is_hoarding_task' = r.hoarding
               /\ task' = r.task
               /\ UNCHANGED <<is_first_task, site>>
          ELSE IF r.task.next_run > now
          THEN /\ task' = r.task
               /\ is_hoarding_task' = r.hoarding
               /\ is_first_task' = FALSE
               /\ reason' = reason
               /\ IF WhenTaskQueueEmpty \in {"close_game", "goto_main"}
                  THEN pc' = "run" /\ site' = "idle"
                  ELSE pc' = "wait" /\ site' = site
          ELSE /\ task' = r.task
               /\ is_hoarding_task' = FlagOnReturn(r.hoarding)
               /\ pc' = "ready"
               /\ reason' = reason
               /\ UNCHANGED <<is_first_task, site>>
    /\ UNCHANGED <<data, order, SCHEDULER_PRIORITY, TaskHoardingDuration, now,
                   WhenTaskQueueEmpty, failure_record, stop_event, server,
                   checker, success, last, notified, streak, outages>>
    /\ phase' = IF pc' \in {"run", "wait"} /\ phase = "fresh"
                THEN "waited"
                ELSE phase
    /\ UNCHANGED <<recalled, cfg, pledge, stuck>>
    /\ changed' = FALSE

\* del_cached_property(self, 'config'): the next use of self.config builds a
\* new AzurLaneConfig from the stored data, with empty task lists and no
\* task selected.
DiscardConfig ==
    /\ pending_task' = <<>>
    /\ waiting_task' = <<>>
    /\ task' = NoTask
    /\ call' = NoCall

\* wait_until(), lines 227-228, and what get_next_task() does when it
\* returns True: with close_game and a task other than Restart, call Restart,
\* discard the config and select again; otherwise the task is selected.
WaitDone ==
    /\ pc = "wait"
    /\ now > task.next_run + Seconds(WaitMarginSeconds)
    /\ IF WhenTaskQueueEmpty = "close_game" /\ task.command # "Restart"
       THEN LET c == task_call(data, "Restart", TRUE, now) IN
            IF c.raised
            THEN /\ pc' = "uncaught"
                 /\ reason' = "ScriptError"
                 /\ UNCHANGED <<data, is_hoarding_task, pending_task,
                                waiting_task, task, call, pledge>>
            ELSE /\ pc' = "select"
                 /\ data' = c.data
                 /\ DiscardConfig
                 /\ pledge' = [pledge EXCEPT !.waited = task.command]
                 /\ UNCHANGED <<reason, is_hoarding_task>>
       ELSE /\ pc' = "ready"
            /\ is_hoarding_task' = FlagOnReturn(is_hoarding_task)
            /\ UNCHANGED <<data, reason, pending_task, waiting_task, task,
                           call, pledge>>
    /\ UNCHANGED <<order, SCHEDULER_PRIORITY, TaskHoardingDuration, now,
                   WhenTaskQueueEmpty, is_first_task, failure_record,
                   stop_event, server, checker, site, success, last, notified,
                   streak, outages>>
    /\ UNCHANGED phase
    /\ UNCHANGED <<recalled, cfg, stuck>>
    /\ UNCHANGED changed

\* wait_until(), lines 229-233: the stop event ends the process.
WaitStop ==
    /\ pc = "wait"
    /\ ~(now > task.next_run + Seconds(WaitMarginSeconds))
    /\ ShouldStop(stop_event)
    /\ pc' = "exit0"
    /\ reason' = "stop_event"
    /\ UNCHANGED <<schedVars, WhenTaskQueueEmpty, task, is_first_task,
                   failure_record, stop_event, server, checker, site, success,
                   last, notified, streak, outages>>
    /\ UNCHANGED phase
    /\ UNCHANGED <<recalled, cfg, pledge, stuck>>

\* wait_until(), lines 235-238: sleep, then return False if the config file
\* changed (get_next_task() then discards the config and selects again).
WaitPoll ==
    /\ pc = "wait"
    /\ ~(now > task.next_run + Seconds(WaitMarginSeconds))
    /\ ~ShouldStop(stop_event)
    /\ now + Seconds(PollSeconds) <= MaxClock
    /\ now' = now + Seconds(PollSeconds)
    /\ pc' = AfterPoll(changed)
    /\ changed' = FALSE
    /\ IF pc' = "select"
       THEN DiscardConfig
       ELSE UNCHANGED <<pending_task, waiting_task, task, call>>
    /\ UNCHANGED <<data, order, SCHEDULER_PRIORITY, TaskHoardingDuration,
                   is_hoarding_task, WhenTaskQueueEmpty, is_first_task,
                   failure_record, stop_event, server, checker, site, success,
                   last, reason, notified, streak, outages, phase>>
    /\ UNCHANGED <<recalled, cfg, pledge, stuck>>

\* loop(), lines 352-356: Restart selected as the first task is not run but
\* delayed to the next server update (a whole second not before now).
SkipRestart ==
    /\ pc = "ready"
    /\ SkipFirstRestart(is_first_task, task.command)
    /\ \E u \in now..(now + Minutes(MaxUpdateMinutes)) :
          /\ u = ReplaceMicrosecond0(u)
          /\ data' = task_delay(data, task.command, u, now)
    /\ pc' = "top"
    /\ DiscardConfig
    /\ UNCHANGED <<order, SCHEDULER_PRIORITY, TaskHoardingDuration,
                   is_hoarding_task, now, WhenTaskQueueEmpty, is_first_task,
                   failure_record, stop_event, server, checker, site, success,
                   last, reason, notified, streak, outages>>
    /\ phase' = "executed"
    /\ UNCHANGED <<recalled, cfg, pledge, stuck>>
    /\ UNCHANGED changed

\* The name run() is called with: inflection.underscore(task) from loop(),
\* 'stop' or 'goto_main' from get_next_task().
RunCommand ==
    IF site = "idle"
    THEN IF WhenTaskQueueEmpty = "close_game" THEN "stop" ELSE "goto_main"
    ELSE Lower(task.command)

\* run(), lines 121-197, up to its first sleep or wait: the task body takes
\* some time, may delay its own task when it ends normally, and returns or
\* raises; the except clause of the outcome runs.
RunBody ==
    /\ \/ pc = "run" /\ site = "idle"
       \/ pc = "ready" /\ ~SkipFirstRestart(is_first_task, task.command)
    /\ site' = IF pc = "ready" THEN "task" ELSE site
    /\ \E outcome \in Outcomes, e \in {0, Seconds(BodySeconds)},
          m \in 0..MaxDelayMinutes :
          /\ now + e <= MaxClock
          /\ m > 0 => pc = "ready" /\ outcome \in {"return", "TaskEnd"}
          /\ now' = now + e
          /\ LET h == RunHandler(outcome, server)
                 d1 == IF m > 0
                       THEN task_delay(data, task.command,
                                       now' + Minutes(m), now')
                       ELSE data
                 c == task_call(d1, "Restart", TRUE, now')
             IN
             /\ last' = [command |-> IF pc = "ready" THEN Lower(task.command)
                                     ELSE RunCommand,
                         outcome |-> outcome, postprocess |-> h.postprocess,
                         saved |-> h.saved, notified |-> h.notify,
                         restart |-> h.restart]
             /\ notified' = notified + h.notify
             /\ success' = (h.result = "True")
             /\ streak' = IF pc = "ready" /\ h.result # "exit"
                          THEN [streak EXCEPT ![task.command] =
                                   IF h.result = "True" THEN 0 ELSE @ + 1]
                          ELSE streak
             /\ checker' = IF h.check THEN Observe(checker, server) ELSE checker
             /\ pledge' = IF pc = "ready"
                          THEN [fault |-> (IF task.command = "Restart"
                                           THEN {} ELSE pledge.fault)
                                          \cup (IF h.restart /\ ~c.raised
                                                THEN {task.command} ELSE {}),
                                waited |-> ""]
                          ELSE pledge
             /\ IF h.restart /\ c.raised
                THEN /\ pc' = "uncaught"
                     /\ reason' = "ScriptError"
                     /\ data' = d1
                ELSE /\ data' = IF h.restart THEN c.data ELSE d1
                     /\ pc' = IF h.result = "exit" THEN "exit1"
                              ELSE IF h.sleep THEN "cooldown"
                              ELSE IF h.wait THEN "server_wait"
                              ELSE "return"
                     /\ reason' = IF h.result = "exit" THEN outcome ELSE reason
    /\ UNCHANGED <<order, SCHEDULER_PRIORITY, TaskHoardingDuration,
                   is_hoarding_task, pending_task, waiting_task, call,
                   WhenTaskQueueEmpty, task, is_first_task, failure_record,
                   stop_event, server, outages>>
    /\ phase' = IF pc = "ready" THEN "executed" ELSE phase
    /\ recalled' = IF pc = "ready" THEN FALSE ELSE recalled
    /\ UNCHANGED <<cfg, stuck>>
    /\ UNCHANGED changed

\* run(), lines 140 and 148: device.sleep(10).
Cooldown ==
    /\ pc = "cooldown"
    /\ now + Seconds(CooldownSeconds) <= MaxClock
    /\ now' = now + Seconds(CooldownSeconds)
    /\ pc' = "return"
    /\ UNCHANGED <<data, order, SCHEDULER_PRIORITY, TaskHoardingDuration,
                   is_hoarding_task, pending_task, waiting_task, call,
                   loopVarsButPc>>
    /\ UNCHANGED <<recalled, cfg, pledge, stuck>>
    /\ UNCHANGED changed

\* run(), line 163: checker.wait_until_available() (blocking).
ServerWait ==
    /\ pc = "server_wait"
    /\ server
    /\ checker' = Observe(checker, TRUE)
    /\ pc' = "return"
    /\ UNCHANGED <<schedVars, WhenTaskQueueEmpty, task, is_first_task,
                   failure_record, stop_event, server, site, success, last,
                   reason, notified, streak, outages>>
    /\ UNCHANGED phase
    /\ UNCHANGED <<recalled, cfg, pledge, stuck>>

\* loop(), lines 368-403, after run() returned: the failure count of the
\* task, the escalation, and the next iteration.
Record ==
    /\ pc = "return"
    /\ site = "task"
    /\ is_first_task' = FALSE
    /\ LET failed == FailureCount(failure_record[task.command], success) IN
       /\ failure_record' = RecordFailure(failure_record, task.command, failed)
       /\ IF ShouldEscalate(failed)
          THEN /\ notified' = notified + 1
               /\ pc' = "exit1"
               /\ reason' = "failed3"
               /\ UNCHANGED <<checker, success, last, task, pending_task,
                              waiting_task, call>>
          ELSE /\ notified' = notified
               /\ pc' = "top"
               /\ reason' = reason
               /\ checker' = IF success THEN checker
                             ELSE Observe(checker, server)
               /\ success' = TRUE
               /\ last' = NoRun
               /\ DiscardConfig
    /\ UNCHANGED <<data, order, SCHEDULER_PRIORITY, TaskHoardingDuration,
                   is_hoarding_task, now, WhenTaskQueueEmpty, stop_event,
                   server, site, streak, outages>>
    /\ UNCHANGED phase
    /\ UNCHANGED <<recalled, cfg, pledge, stuck>>
    /\ UNCHANGED changed

\* get_next_task(), lines 262-265 and 274-277: run('stop') / run('goto_main')
\* returned (its result is not used); the idle wait starts.
IdleReturn ==
    /\ pc = "return"
    /\ site = "idle"
    /\ pc' = "wait"
    /\ site' = "task"
    /\ success' = TRUE
    /\ last' = NoRun
    /\ UNCHANGED <<schedVars, WhenTaskQueueEmpty, task, is_first_task,
                   failure_record, stop_event, server, checker, reason,
                   notified, streak, outages>>
    /\ UNCHANGED phase
    /\ UNCHANGED <<recalled, cfg, pledge, stuck>>

Next ==
    \/ SetStopEvent
    \/ ServerChange
    \/ ConfigChanged
    \/ LoopStop
    \/ LoopServer
    \/ Select
    \/ WaitDone
    \/ WaitStop
    \/ WaitPoll
    \/ SkipRestart
    \/ RunBody
    \/ Cooldown
    \/ ServerWait
    \/ Record
    \/ IdleReturn

Spec == Init /\ [][Next]_vars

\* ======================================================================
\* config.py: the config object over the stored file
\* ======================================================================
\* Bounds of the store.
\* Deepest nesting of multi_set scopes.
MaxDepth == 2

\* The task the config is bound to (init_task / bind).
BoundTask == "Dungeon"

\* The paths the operations of the store write: <<task, field of Scheduler>>.
Paths == {"Dungeon", "Restart"} \X {"Enable", "NextRun"}

StoreStart == LoopStart

\* A NextRun later than 24 hours from now, beyond the limit of
\* config_override.
FarFuture == ReplaceMicrosecond0(StoreStart) + Minutes(24 * 60)
             + TicksPerSecond

\* self.modified = {}: no path, and no value kept for a path that is not set.
NoValue == [Enable |-> FALSE, NextRun |-> DEFAULT_TIME]

NoOverlay == [keys |-> {}, val |-> [c \in Commands |-> NoValue]]

\* self.modified[path] = value.
SetPath(m, c, field, value) ==
    [keys |-> m.keys \cup {<<c, field>>},
     val |-> IF field = "Enable"
             THEN [m.val EXCEPT ![c].Enable = value]
             ELSE [m.val EXCEPT ![c].NextRun = value]]

\* for path, value in self.modified.items(): deep_set(self.data, path, value)
\* (load(), lines 168-169, and save(), lines 341-342).
ApplyModified(d, m) ==
    [c \in DOMAIN d |->
        [Enable |-> IF <<c, "Enable">> \in m.keys
                    THEN m.val[c].Enable ELSE d[c].Enable,
         NextRun |-> IF <<c, "NextRun">> \in m.keys
                     THEN m.val[c].NextRun ELSE d[c].NextRun]]

\* ConfigUpdater._update_state, lines 225-226: with
\* Rogue.RogueWorld.UseImmersifier stored True, Dungeon.Scheduler.Enable is
\* set True in the data read.
UpdateState(d, immersifier) ==
    IF immersifier THEN [d EXCEPT !["Dungeon"].Enable = TRUE] ELSE d

\* ConfigUpdater.read_file: the file's content (json.loads and parse_value
\* give back the booleans and, through str() and fromisoformat(), the
\* datetimes that write_file dumped), then _update_state.
ReadFile(file, immersifier) == UpdateState(file, immersifier)

\* AzurLaneConfig.load: read the file, config_override, apply the overlay.
Load(file, m, immersifier, t) ==
    ApplyModified(ConfigOverride(ReadFile(file, immersifier), t), m)

\* AzurLaneConfig.save on self.data = d: [data, file, modified, wrote].
\* Nothing is written when the overlay is empty; otherwise the overlay is
\* applied to self.data, cleared, and the whole of self.data is written.
Save(d, file, m) ==
    IF m.keys = {}
    THEN [data |-> d, file |-> file, modified |-> m, wrote |-> FALSE]
    ELSE [data |-> ApplyModified(d, m), file |-> ApplyModified(d, m),
          modified |-> NoOverlay, wrote |-> TRUE]

\* AzurLaneConfig.update: load(), config_override(), bind(), save().
\* bind() computes the attributes of the bound task from self.data and
\* changes neither self.data nor the overlay.
Update(file, m, immersifier, t) ==
    Save(ConfigOverride(Load(file, m, immersifier, t), t), file, m)

\* Variant: every wrapper takes itself for the outermost one.
InWrapper_Never(auto_update) == FALSE

\* MultiSetWrapper.__enter__, lines 807-810: the wrapper that finds
\* auto_update already off is nested (in_wrapper = True).
InWrapper(auto_update) == ~auto_update

\* The config object after an operation: the fields that changed, the
\* operation's name and target, whether it wrote the file, and the overlay
\* it flushed when it did (m is the overlay save() found).
After(op, target, m, r) ==
    [cfg EXCEPT !.data = r.data, !.modified = r.modified, !.op = op,
                !.target = target, !.wrote = r.wrote, !.result = "",
                !.flushed = IF r.wrote THEN m ELSE NoOverlay]

\* The values a caller assigns to the Scheduler fields of the bound task.
StoreRecords ==
    {[Enable |-> e, NextRun |-> n] : e \in BOOLEAN,
                                     n \in {DEFAULT_TIME, FarFuture}}

\* AzurLaneConfig.__init__ and init_task(): load(), bind(), save() with an
\* empty overlay.
InitStore ==
    /\ data \in [Commands -> StoreRecords]
    /\ data["Restart"].NextRun = DEFAULT_TIME
    /\ order = Canonical
    /\ SCHEDULER_PRIORITY = Canonical
    /\ TaskHoardingDuration = 0
    /\ is_hoarding_task = TRUE
    /\ now = StoreStart
    /\ pending_task = <<>>
    /\ waiting_task = <<>>
    /\ call = NoCall
    /\ changed = FALSE
    /\ LoopIdle
    /\ recalled = FALSE
    /\ pledge = NoPledge
    /\ stuck = NoDevice
    /\ \E immersifier \in BOOLEAN :
          cfg = [open |-> TRUE,
                 data |-> Load(data, NoOverlay, immersifier, now),
                 modified |-> NoOverlay,
                 auto_update |-> TRUE,
                 wrappers |-> <<>>,
                 immersifier |-> immersifier,
                 op |-> "init", target |-> BoundTask, wrote |-> FALSE,
                 result |-> "", flushed |-> NoOverlay]

\* What the operations of the store leave alone.
StoreFrame ==
    UNCHANGED <<order, SCHEDULER_PRIORITY, TaskHoardingDuration,
                is_hoarding_task, pending_task, waiting_task, call, changed,
                loopVars, recalled, pledge, stuck>>

\* __setattr__ of a bound key, lines 81-90: the value goes to the overlay,
\* and update() runs if auto_update is on.
SetAttr ==
    /\ \E field \in {"Enable", "NextRun"}, v \in StoreRecords :
          LET value == IF field = "Enable" THEN v.Enable ELSE v.NextRun
              m == SetPath(cfg.modified, BoundTask, field, value)
              r == IF cfg.auto_update
                   THEN Update(data, m, cfg.immersifier, now)
                   ELSE [data |-> cfg.data, file |-> data, modified |-> m,
                         wrote |-> FALSE]
          IN /\ cfg' = After("assign", BoundTask, m, r)
             /\ data' = r.file
    /\ now' = now
    /\ StoreFrame

\* with config.multi_set(): MultiSetWrapper.__enter__, lines 802-811.
Enter ==
    /\ Len(cfg.wrappers) < MaxDepth
    /\ cfg' = [cfg EXCEPT !.wrappers = Append(@, InWrapper(cfg.auto_update)),
                          !.auto_update = FALSE,
                          !.op = "enter", !.target = BoundTask,
                          !.wrote = FALSE, !.result = "",
                          !.flushed = NoOverlay]
    /\ UNCHANGED <<data, now>>
    /\ StoreFrame

\* MultiSetWrapper.__exit__, lines 813-820, of the innermost open wrapper:
\* the outermost one runs update() and turns auto_update on again.
Exit ==
    /\ cfg.wrappers # <<>>
    /\ LET in_wrapper == cfg.wrappers[Len(cfg.wrappers)]
           rest == SubSeq(cfg.wrappers, 1, Len(cfg.wrappers) - 1)
           r == IF in_wrapper
                THEN [data |-> cfg.data, file |-> data,
                      modified |-> cfg.modified, wrote |-> FALSE]
                ELSE Update(data, cfg.modified, cfg.immersifier, now)
       IN /\ cfg' = [After("exit", BoundTask, cfg.modified, r) EXCEPT
                        !.wrappers = rest,
                        !.auto_update = IF in_wrapper THEN @ ELSE TRUE]
          /\ data' = r.file
    /\ now' = now
    /\ StoreFrame

\* config.task_delay(...) of the bound task, lines 497-508: the run time goes
\* to the overlay cut to the second, and update() runs.
TaskDelay ==
    /\ \E run \in {now + Minutes(1), FarFuture} :
          LET m == SetPath(cfg.modified, BoundTask, "NextRun",
                           ReplaceMicrosecond0(run))
              r == Update(data, m, cfg.immersifier, now)
          IN /\ cfg' = After("task_delay", BoundTask, m, r)
             /\ data' = r.file
    /\ now' = now
    /\ StoreFrame

\* A task name the user config has no entry for.
MissingTask == "Unknown"

\* Variant: the call puts only NextRun into the overlay.
CallOverlay_NextRunOnly(m, c, t) ==
    SetPath(m, c, "NextRun", ReplaceMicrosecond0(t))

\* task_call(), lines 536-539: NextRun = now to the second and Enable = True
\* go to the overlay.
CallOverlay(m, c, t) ==
    SetPath(SetPath(m, c, "NextRun", ReplaceMicrosecond0(t)),
            c, "Enable", TRUE)

\* config.task_call(task, force_call), lines 515-545: ScriptError for a task
\* the config has no NextRun for; a task that is called (forced, or enabled)
\* goes to the overlay, update() runs if auto_update is on, and True is
\* returned; otherwise False is returned.
TaskCall ==
    /\ \E c \in {"Restart", MissingTask}, force_call \in BOOLEAN :
          LET m == CallOverlay(cfg.modified, c, now)
              result == IF c \notin DOMAIN cfg.data
                        THEN "ScriptError"
                        ELSE IF force_call \/ cfg.data[c].Enable
                        THEN "True"
                        ELSE "False"
              r == IF result # "True"
                   THEN [data |-> cfg.data, file |-> data,
                         modified |-> cfg.modified, wrote |-> FALSE]
                   ELSE IF cfg.auto_update
                   THEN Update(data, m, cfg.immersifier, now)
                   ELSE [data |-> cfg.data, file |-> data, modified |-> m,
                         wrote |-> FALSE]
          IN /\ cfg' = [After("task_call", c, m, r) EXCEPT !.result = result]
             /\ data' = r.file
    /\ now' = now
    /\ StoreFrame

\* config.load(), lines 160-169.
LoadConfig ==
    /\ cfg' = [cfg EXCEPT !.data = Load(data, cfg.modified, cfg.immersifier,
                                        now),
                          !.op = "load", !.target = BoundTask,
                          !.wrote = FALSE, !.result = "",
                          !.flushed = NoOverlay]
    /\ UNCHANGED <<data, now>>
    /\ StoreFrame

\* config.save(), lines 329-351.
SaveConfig ==
    /\ LET r == Save(cfg.data, data, cfg.modified) IN
       /\ cfg' = After("save", BoundTask, cfg.modified, r)
       /\ data' = r.file
    /\ now' = now
    /\ StoreFrame

NextStore ==
    \/ SetAttr
    \/ Enter
    \/ Exit
    \/ TaskDelay
    \/ TaskCall
    \/ LoadConfig
    \/ SaveConfig

SpecStore == InitStore /\ [][NextStore]_vars

\* ======================================================================
\* Properties of get_next(), checked under SpecNext
\* ======================================================================
\* The vocabulary of the properties, over the store as the call found it.
Enabled(c) == data[c].Enable

Valid(c) == data[c].NextRun # NotADatetime

\* A token of the priority list names the command.
Named(c) == \E i \in DOMAIN SCHEDULER_PRIORITY : SCHEDULER_PRIORITY[i] = c

\* The hoarding window at the call, in ticks: the hoarding duration while the
\* hoarding flag is set, nothing otherwise.
Window ==
    IF call.flag /\ TaskHoardingDuration > 0
    THEN TaskHoardingDuration * SecondsPerMinute * TicksPerSecond
    ELSE 0

\* Enabled, with a valid next_run earlier than the instant the call compares
\* with.
Due(c) == Enabled(c) /\ Valid(c) /\ data[c].NextRun < call.now - Window

\* The call returned the stored task c unchanged.
ReturnedStored(c) ==
    /\ call.kind = "task"
    /\ call.task = [command |-> c, enable |-> data[c].Enable,
                    next_run |-> data[c].NextRun]

C8_NoEnabledTaskRaises ==
    (call.made /\ \A c \in Commands : ~Enabled(c))
    => /\ call.kind = "raise"
       /\ call.from = "none"
       /\ pending_task = <<>>
       /\ waiting_task = <<>>

C8_Witness ==
    /\ call.made
    /\ \A c \in Commands : ~Enabled(c)
    /\ call.kind = "raise"

\* The first position of the priority list that names c.
PriorityIndex(c) ==
    CHOOSE i \in DOMAIN SCHEDULER_PRIORITY :
        /\ SCHEDULER_PRIORITY[i] = c
        /\ \A j \in 1..(i - 1) : SCHEDULER_PRIORITY[j] # c

\* The position of c among the keys of the store.
StoreIndex(c) == CHOOSE i \in DOMAIN order : order[i] = c

\* c goes before e: an earlier priority token, or the same token and an
\* earlier place in the store.
Before(c, e) ==
    \/ PriorityIndex(c) < PriorityIndex(e)
    \/ PriorityIndex(c) = PriorityIndex(e) /\ StoreIndex(c) < StoreIndex(e)

\* Several tasks are due and the priority list names each of them.
SeveralDue ==
    /\ call.made
    /\ Cardinality({c \in Commands : Due(c)}) >= 2
    /\ \A c \in Commands : Due(c) => Named(c)

\* The due task that goes before every other due task.
FirstDue(c) ==
    /\ Due(c)
    /\ \A e \in Commands : Due(e) /\ e # c => Before(c, e)

\* C9 as stated: when several tasks are due, get_next() returns the one whose
\* command comes first in the priority list.
C9_FirstInPriorityIsReturned ==
    SeveralDue => \E c \in Commands : FirstDue(c) /\ ReturnedStored(c)

\* C9: when several tasks are due, the priority list names each of them and
\* no enabled task has an invalid next_run, the pending list holds the due
\* tasks in the order of the priority list (store order within one token)
\* and get_next() returns the first of them.
C9_FirstInPriorityIsReturnedWhenAllValid ==
    (SeveralDue /\ \A c \in Commands : Enabled(c) => Valid(c))
    => /\ \E c \in Commands : FirstDue(c) /\ ReturnedStored(c)
       /\ {pending_task[i].command : i \in DOMAIN pending_task}
             = {c \in Commands : Due(c)}
       /\ Len(pending_task) = Cardinality({c \in Commands : Due(c)})
       /\ \A i, j \in DOMAIN pending_task :
             i < j => Before(pending_task[i].command, pending_task[j].command)

\* Two due tasks that the store holds in the opposite order of the priority
\* list, and the call returned the one the priority list puts first.
C9_Witness ==
    /\ SeveralDue
    /\ \A c \in Commands : Enabled(c) => Valid(c)
    /\ \E c, e \in Commands :
          /\ FirstDue(c) /\ Due(e)
          /\ StoreIndex(e) < StoreIndex(c)
          /\ ReturnedStored(c)

\* C10 as stated: with an empty priority string, the hoarding flag off and
\* one enabled task due now, get_next() returns that task.
C10_EmptyPriorityReturnsTheTask ==
    \A c \in Commands :
        (/\ call.made
         /\ SCHEDULER_PRIORITY = <<"">>
         /\ ~call.flag
         /\ \A e \in Commands : Enabled(e) <=> e = c
         /\ Valid(c)
         /\ data[c].NextRun <= call.now)
        => ReturnedStored(c)

\* The hoarding duration, in ticks (a negative setting counts as none).
HoardingTicks ==
    IF TaskHoardingDuration > 0
    THEN TaskHoardingDuration * SecondsPerMinute * TicksPerSecond
    ELSE 0

\* Enabled, with a valid next_run not earlier than the instant the call
\* compares with.
Waiting(c) == Enabled(c) /\ Valid(c) /\ ~Due(c)

\* No enabled task is pending (due, or with an invalid next_run) and some
\* enabled task is waiting.
OnlyWaiting ==
    /\ call.made
    /\ \A c \in Commands : Enabled(c) => Waiting(c)
    /\ \E c \in Commands : Waiting(c)

\* c is a waiting task with the smallest next_run.
EarliestWaiting(c) ==
    /\ Waiting(c)
    /\ \A e \in Commands : Waiting(e) => data[c].NextRun <= data[e].NextRun

\* C11 as stated: when no enabled task is pending and at least one is
\* waiting, get_next() returns the command of the waiting task with the
\* smallest next_run, with next_run the stored one plus the hoarding
\* duration, cut to the whole second.
C11_EarliestWaitingIsReturned ==
    OnlyWaiting
    => /\ call.kind = "task"
       /\ \E c \in Commands :
             /\ EarliestWaiting(c)
             /\ call.task.command = c
             /\ call.task.next_run =
                   (data[c].NextRun + HoardingTicks)
                   - ((data[c].NextRun + HoardingTicks) % TicksPerSecond)

\* The task a call of get_next() returns on the store as it is now, at the
\* time of the last call and with the hoarding flag False.
SecondCall ==
    LET q == Classify(data, order, call.now, 1,
                      [pending |-> <<>>, waiting |-> <<>>, error |-> <<>>])
        pending == q.error \o FilterApply(SCHEDULER_PRIORITY, q.pending)
        waiting == SortedByNextRun(FilterApply(SCHEDULER_PRIORITY, q.waiting))
    IN  IF pending # <<>> THEN [kind |-> "task", task |-> pending[1]]
        ELSE IF waiting # <<>>
        THEN [kind |-> "task",
              task |-> [waiting[1] EXCEPT !.next_run =
                           (@ + HoardingTicks)
                           - ((@ + HoardingTicks) % TicksPerSecond)]]
        ELSE [kind |-> "raise", task |-> NoTask]

\* C12: get_next() leaves config.data as it was; the task it returns from
\* the waiting list is a copy, the list keeps the task with its stored
\* next_run; and a second call on the store as the first call left it, at
\* the same time and with the hoarding flag False again, returns a task with
\* the same command and next_run.
C12_GetNextLeavesTheStore ==
    /\ [][data' = data /\ order' = order]_vars
    /\ [](call.made /\ call.kind = "task"
             => data[call.task.command].Enable)
    /\ [](call.made /\ call.from = "waiting"
             => /\ waiting_task # <<>>
                /\ waiting_task[1].command = call.task.command
                /\ waiting_task[1].next_run
                      = data[call.task.command].NextRun
                /\ \A i \in DOMAIN waiting_task :
                      waiting_task[i] =
                          [command |-> waiting_task[i].command,
                           enable |-> data[waiting_task[i].command].Enable,
                           next_run |-> data[waiting_task[i].command].NextRun])
    /\ [](call.made /\ ~call.flag
             => /\ SecondCall.kind = call.kind
                /\ SecondCall.task.command = call.task.command
                /\ SecondCall.task.next_run = call.task.next_run)

\* A call with the hoarding flag False and a positive hoarding duration that
\* returned a waiting task with its next_run advanced.
C12_Witness ==
    /\ call.made
    /\ ~call.flag
    /\ call.from = "waiting"
    /\ call.task.next_run > data[call.task.command].NextRun
    /\ waiting_task[1].next_run = data[call.task.command].NextRun

\* C13 as stated: after get_next_task() every enabled task is in exactly one
\* of pending_task and waiting_task, once, and no disabled task is in either.
C13_EveryEnabledTaskIsListedOnce ==
    call.made
    => \A c \in Commands :
          LET inPending == {i \in DOMAIN pending_task :
                               pending_task[i].command = c}
              inWaiting == {i \in DOMAIN waiting_task :
                               waiting_task[i].command = c}
          IN  Cardinality(inPending) + Cardinality(inWaiting)
                 = IF Enabled(c) THEN 1 ELSE 0

\* ======================================================================
\* Properties of the control loop, checked under Spec
\* ======================================================================
\* run() has returned or is in its sleep or wait; loop() has not yet counted
\* the result.
Returning == pc \in {"cooldown", "server_wait", "return"}

\* Some task body has failed three times in a row.
ThirdFailure == \E c \in Commands : streak[c] >= 3

\* C2: once a task has failed in three consecutive executions the loop runs
\* no task body again: when run() has returned it sends the notification
\* and exits.
C2_ThirdFailureNotifiesAndExits ==
    /\ [](ThirdFailure => Returning \/ pc = "exit1")
    /\ [](ThirdFailure /\ pc = "exit1"
             => reason = "failed3" /\ notified >= 1)
    /\ [][ThirdFailure => ThirdFailure']_vars
    /\ [][ThirdFailure /\ pc = "return" /\ pc' # pc
             => /\ pc' = "exit1"
                /\ reason' = "failed3"
                /\ notified' = notified + 1]_vars

C2_Witness ==
    /\ pc = "exit1"
    /\ reason = "failed3"
    /\ notified >= 1
    /\ \E c \in Commands : streak[c] = 3

\* C3: once loop() has counted an execution, the failure count of every task
\* is the number of its executions that failed since its last success (0
\* after a success), it never passes 3, and the loop has escalated exactly
\* when a count has reached 3.
C3_FailureCountIsTheStreak ==
    /\ ~Returning => \A c \in Commands : failure_record[c] = streak[c]
    /\ \A c \in Commands : failure_record[c] \in 0..3
    /\ (reason = "failed3") <=> (\E c \in Commands : failure_record[c] >= 3)
    /\ reason = "failed3" => pc = "exit1"

\* The escalation on one task while another task has failures of its own.
C3_Witness ==
    /\ reason = "failed3"
    /\ \E c, e \in Commands :
          /\ c # e
          /\ failure_record[c] = 3
          /\ failure_record[e] \in 1..2

\* A time cut to the whole second.
WholeSecond(t) == t - (t % TicksPerSecond)

\* The device faults run() answers with a restart of the game.
Transient == {"GameNotRunningError", "GameStuckError", "GameTooManyClickError"}

\* C4: after GameNotRunningError, GameStuckError or GameTooManyClickError
\* run() returns False without cleanup hook, notification or exit, and
\* Restart is enabled with next_run the second of the fault (ten seconds
\* before run() returns, for the two faults that sleep). The process exits
\* afterwards only by the rule of three failures.
C4_TransientFaultSchedulesRestart ==
    last.outcome \in Transient
    => /\ ~success
       /\ last.postprocess = 0 /\ last.notified = 0
       /\ pc \in {"cooldown", "return", "exit1"}
       /\ pc = "exit1" => reason = "failed3"
       /\ pc = "cooldown" => last.outcome # "GameNotRunningError"
       /\ data["Restart"].Enable
       /\ data["Restart"].NextRun =
             IF pc = "cooldown" \/ last.outcome = "GameNotRunningError"
             THEN WholeSecond(now)
             ELSE WholeSecond(now - CooldownSeconds * TicksPerSecond)

C4_Witness ==
    /\ last.outcome \in Transient
    /\ pc = "return"
    /\ ~success
    /\ data["Restart"] = [Enable |-> TRUE, NextRun |-> WholeSecond(now)]
    /\ now # WholeSecond(now)

\* C5: after ScriptError or an exception run() does not classify, the cleanup
\* hook and the error log have run once each, the notification is sent and
\* the process has exited with status 1.
C5_UnclassifiedExceptionExits ==
    last.outcome \in {"ScriptError", "Exception"}
    => /\ pc = "exit1"
       /\ reason = last.outcome
       /\ last.postprocess = 1
       /\ last.saved = 1
       /\ last.notified = 1

C5_Witness ==
    /\ last.outcome = "Exception"
    /\ pc = "exit1"
    /\ last.postprocess = 1
    /\ last.saved = 1

\* run() ended the process on the outcome of the task body.
FatalExit ==
    /\ pc = "exit1"
    /\ reason = last.outcome
    /\ last.outcome \in {"GamePageUnknownError", "ScriptError",
                         "RequestHumanTakeover", "Exception"}

\* C6 as stated: a fatal task failure runs both the cleanup hook and the
\* error-log hook.
C6_FatalFailureRunsBothHooks ==
    FatalExit => last.postprocess >= 1 /\ last.saved >= 1

\* C6: ScriptError and an unclassified exception run both the cleanup hook
\* and the error-log hook; GamePageUnknownError with the server up runs the
\* error-log hook only and RequestHumanTakeover the cleanup hook only. In
\* all four cases the notification is sent and the process has exited.
C6_FatalFailureHooks ==
    /\ last.outcome \in {"ScriptError", "RequestHumanTakeover", "Exception"}
          => FatalExit
    /\ last.outcome = "GamePageUnknownError"
          => \/ FatalExit
             \/ /\ ~success
                /\ last.saved = 0 /\ last.postprocess = 0
                /\ last.notified = 0
                /\ Returning \/ (pc = "exit1" /\ reason = "failed3")
    /\ FatalExit
          => /\ last.notified = 1 /\ notified >= 1
             /\ last.postprocess =
                   IF last.outcome = "GamePageUnknownError" THEN 0 ELSE 1
             /\ last.saved =
                   IF last.outcome = "RequestHumanTakeover" THEN 0 ELSE 1

C6_Witness ==
    /\ FatalExit
    /\ last.outcome = "RequestHumanTakeover"
    /\ last.postprocess = 1
    /\ last.saved = 0

\* C7 as stated: whenever the loop has terminated otherwise than by a
\* shutdown, a notification was sent.
C7_EveryTerminationNotifies ==
    pc \in Terminal \ {"stopped", "exit0"} => notified >= 1

\* ----------------------------------------------------------------------
\* The first task of the loop

\* loop() has its task, and it is the first one: no task was run or skipped.
FirstTask(c) == pc = "ready" /\ phase # "executed" /\ task.command = c

\* The step skips task c: no body runs, c is stored with a NextRun that is a
\* whole second not before now, the config is discarded and the loop starts
\* its next iteration.
Skipped(c) ==
    /\ pc' = "top"
    /\ last' = last
    /\ now' = now
    /\ data'[c].Enable
    /\ data'[c].NextRun >= now
    /\ data'[c].NextRun = WholeSecond(data'[c].NextRun)
    /\ task' = NoTask
    /\ pending_task' = <<>>
    /\ waiting_task' = <<>>

\* The step runs the body of task c.
BodyRan(c) == last'.command = Lower(c) /\ phase' = "executed"

\* C14 as stated: a Restart that is the first task of the loop is skipped,
\* whether it was due when selected or reached through the idle wait.
C14_FirstRestartIsSkipped ==
    [][FirstTask("Restart") /\ pc' # pc => Skipped("Restart")]_vars

\* C14: a Restart that is the first task of the loop is skipped when no idle
\* wait was started before it was selected; after an idle wait its body is
\* run.
C14_FirstRestartIsSkippedUnlessWaited ==
    [][FirstTask("Restart") /\ pc' # pc =>
          IF phase = "fresh"
          THEN Skipped("Restart")
          ELSE BodyRan("Restart")]_vars

C14_Witness ==
    /\ phase = "executed"
    /\ pc = "top"
    /\ last = NoRun
    /\ streak = [c \in Commands |-> 0]
    /\ failure_record = [c \in Commands |-> 0]
    /\ is_first_task
    /\ data["Restart"].NextRun >= now

\* ----------------------------------------------------------------------
\* The shutdown signal

\* The process is at a suspension point: the wait for the server (of loop()
\* or of run()), the idle wait, the cooldown sleep.
Suspended == pc \in {"available", "server_wait", "wait", "cooldown"}

\* C15 as stated: at every suspension point a shutdown signal that is set
\* ends the process with exit code 0, and no task body is run while it is
\* set.
C15_StopEndsEverySuspension ==
    /\ [][Suspended /\ stop_event /\ pc' # pc => pc' = "exit0"]_vars
    /\ [][stop_event => last' = last \/ last' = NoRun]_vars

\* ----------------------------------------------------------------------
\* The config file changes during the idle wait

\* The step is a poll of the idle wait whose should_reload() reports that
\* the config file changed.
ReportedChange == pc = "wait" /\ changed /\ now' # now

\* C16: whatever the idle strategy, the poll of the idle wait that finds the
\* config file changed ends the wait with the cached config discarded and no
\* task body run, and the selection that follows is computed at that time
\* from the store as it is then: the task it returns is enabled in it.
C16_ChangedConfigIsSelectedAgain ==
    /\ [][ReportedChange
             => /\ pc' = "select"
                /\ task' = NoTask
                /\ pending_task' = <<>>
                /\ waiting_task' = <<>>
                /\ ~call'.made
                /\ last' = last
                /\ data' = data]_vars
    /\ [][pc = "select" /\ pc' # pc
             => /\ call'.made
                /\ call'.now = now
                /\ last' = last
                /\ \A c \in Commands :
                      call'.kind # "raise" /\ call'.task.command = c
                         => data[c].Enable /\ task'.command = c]_vars
    /\ [](pc = "select" => last = NoRun)

\* The poll found every task disabled, under a strategy that is none of the
\* three.
C16_Witness ==
    /\ pc = "select"
    /\ phase = "waited"
    /\ WhenTaskQueueEmpty = "invalid"
    /\ task = NoTask
    /\ \A c \in Commands : ~data[c].Enable

\* An iteration of loop() begins with the shutdown signal set.
BeginsStopped == pc = "top" /\ stop_event

\* C17: an iteration of loop() that begins with the shutdown signal set ends
\* the loop, and does nothing else: the server checker is not asked, no task
\* is selected, no task body is run, nothing is stored or notified.
C17_StopAtTheTopEndsTheLoop ==
    /\ [][BeginsStopped /\ pc' # pc
             => /\ pc' = "stopped"
                /\ checker' = checker
                /\ call' = call
                /\ task' = task
                /\ last' = last
                /\ data' = data
                /\ notified' = notified]_vars
    /\ [][pc = "stopped" => pc' = "stopped"]_vars
    /\ [](pc = "stopped" => stop_event /\ last = NoRun)

\* The loop ended by the signal after it had run a task.
C17_Witness ==
    /\ pc = "stopped"
    /\ phase = "executed"
    /\ ~is_first_task
    /\ reason = "stop_event"

\* ----------------------------------------------------------------------
\* Recoverable failures of a task body

\* The exceptions run() answers by returning False, whatever the server.
Recoverable ==
    {"GameNotRunningError", "GameStuckError", "GameTooManyClickError",
     "GameBugError", "HandledError"}

\* The step is a call of run() whose body raises a recoverable exception:
\* one of the above, or GamePageUnknownError while the server is down.
RaisesRecoverable ==
    /\ last' # last
    /\ \/ last'.outcome \in Recoverable
       \/ last'.outcome = "GamePageUnknownError" /\ ~server

\* C18: a recoverable exception of a task body is answered inside run(): the
\* process is then on its way to the return of run(), with False as the
\* value, without exit or notification; where the answer calls Restart, the
\* call has stored Restart as enabled. After the sleep or the wait of the
\* clause run() returns that value, and no exception ever leaves run().
C18_RecoverableFailureReturnsFalse ==
    /\ [][RaisesRecoverable
             => /\ pc' \in {"cooldown", "server_wait", "return"}
                /\ ~success'
                /\ reason' = reason
                /\ notified' = notified
                /\ last'.restart => data'["Restart"].Enable]_vars
    /\ [][pc' # pc /\ pc \in {"cooldown", "server_wait"}
             => /\ pc' = "return"
                /\ last' = last
                /\ success' = success]_vars
    /\ [](pc = "uncaught" => last = NoRun)

\* run() is about to return False for a game fault of task Dungeon, and its
\* call has enabled Restart for the second of the fault.
C18_Witness ==
    /\ pc = "return"
    /\ ~success
    /\ task.command = "Dungeon"
    /\ last.outcome = "GameBugError"
    /\ last.restart
    /\ data["Restart"] = [Enable |-> TRUE, NextRun |-> WholeSecond(
          now - CooldownSeconds * TicksPerSecond)]
    /\ failure_record["Dungeon"] = 1

\* run() has waited for the server after a GamePageUnknownError of the task
\* body and is about to return to loop().
WaitedOutServer ==
    pc = "return" /\ site = "task" /\ last.outcome = "GamePageUnknownError"

\* C19 as stated: an execution that ended by GamePageUnknownError while the
\* server was down is not counted as a failure of the task: the loop goes
\* on with the failure count of the task as it was.
C19_ServerDownIsNotCounted ==
    [][WaitedOutServer /\ pc' # pc
          => pc' = "top" /\ failure_record' = failure_record]_vars

\* ----------------------------------------------------------------------
\* TaskEnd

\* The step is a call of run() whose body raises TaskEnd.
RaisesTaskEnd == last' # last /\ last'.outcome = "TaskEnd"

\* C20: a task body that raises TaskEnd is a success: run() is about to
\* return True, without hook, notification or exit, and the stored Restart
\* is as before (unless Restart is the task itself); loop() then sets the
\* failure count of the task to 0 and goes on.
C20_TaskEndIsASuccess ==
    /\ [][RaisesTaskEnd
             => /\ pc' = "return"
                /\ success'
                /\ last'.postprocess = 0 /\ last'.saved = 0
                /\ notified' = notified
                /\ reason' = reason
                /\ task.command # "Restart"
                      => data'["Restart"] = data["Restart"]]_vars
    /\ [][pc = "return" /\ site = "task" /\ last.outcome = "TaskEnd"
             /\ pc' # pc
             => /\ pc' = "top"
                /\ failure_record'[task.command] = 0
                /\ notified' = notified]_vars

\* run() is about to return True for a task that failed twice before.
C20_Witness ==
    /\ pc = "return"
    /\ site = "task"
    /\ last.outcome = "TaskEnd"
    /\ success
    /\ failure_record[task.command] = 2

\* ======================================================================
\* Further properties of get_next(), checked under SpecNext
\* ======================================================================
\* Some task of the list s has command c.
Listed(c, s) == \E i \in DOMAIN s : s[i].command = c

\* The instant the call compares next_run with.
EffectiveTime == call.now - Window

\* C26 as stated, for the tasks the priority list names: an enabled task
\* with a valid next_run is pending exactly when next_run <= effective_now
\* and waiting exactly when next_run > effective_now.
C26_PendingIffNotLaterThanEffectiveNow ==
    call.made
    => \A c \in Commands :
          Enabled(c) /\ Valid(c) /\ Named(c)
          => /\ Listed(c, pending_task) <=> data[c].NextRun <= EffectiveTime
             /\ Listed(c, waiting_task) <=> data[c].NextRun > EffectiveTime

\* C28 as stated: whenever at least one task is enabled, get_next() returns
\* a task, whatever the priority list.
C28_SomeEnabledTaskIsReturned ==
    call.made /\ (\E c \in Commands : Enabled(c)) => call.kind = "task"

\* The priority list without its empty tokens.
WithoutEmpty(prio) == SelectSeq(prio, LAMBDA token : token # "")

\* The priority list has an empty token.
HasEmptyToken == \E i \in DOMAIN SCHEDULER_PRIORITY : SCHEDULER_PRIORITY[i] = ""

\* C30: an empty token of the priority list selects nothing: the call leaves
\* the lists and returns the task (or raises) as it does with the list
\* without the empty tokens, and a list of empty tokens only lets no task
\* with a valid next_run through.
C30_EmptyTokenMatchesNothing ==
    call.made
    => /\ LET r == get_next(data, order, WithoutEmpty(SCHEDULER_PRIORITY),
                            TaskHoardingDuration, call.flag, call.now)
          IN  /\ pending_task = r.pending
              /\ waiting_task = r.waiting
              /\ call.kind = r.kind
              /\ call.task = r.task
       /\ WithoutEmpty(SCHEDULER_PRIORITY) = <<>>
          => /\ waiting_task = <<>>
             /\ \A i \in DOMAIN pending_task :
                   ~Valid(pending_task[i].command)

\* A call with the priority list <<"", "Dungeon">> (or the reverse) that
\* returned Dungeon while Restart was due as well.
C30_Witness ==
    /\ call.made
    /\ HasEmptyToken
    /\ Named("Dungeon")
    /\ Due("Dungeon") /\ Due("Restart")
    /\ ReturnedStored("Dungeon")
    /\ Len(pending_task) = 1

\* ======================================================================
\* Further properties of the loop, checked under Spec
\* ======================================================================
\* C29: a failure count changes only when loop() counts an execution of a
\* task body, and then only the count of the task executed: the skip of
\* Restart, the runs of 'stop' and 'goto_main' of the idle wait and the wait
\* itself change no count.
C29_OnlyTheExecutedTaskIsCounted ==
    /\ [][failure_record' # failure_record
             => /\ pc = "return"
                /\ site = "task"
                /\ last.command = Lower(task.command)
                /\ \A t \in Commands \ {task.command} :
                      failure_record'[t] = failure_record[t]]_vars
    /\ [][pc # "return" \/ site = "idle"
             => failure_record' = failure_record]_vars

\* Two tasks with failures of their own, counted apart.
C29_Witness ==
    /\ pc = "top"
    /\ last = NoRun
    /\ failure_record["Restart"] = 1
    /\ failure_record["Dungeon"] = 2
    /\ failure_record["Rogue"] = 0

\* Some enabled task is stored with a next_run that is no timestamp.
SomeInvalid == \E c \in Commands : Enabled(c) /\ ~Valid(c)

\* C24 as stated: with an enabled task whose stored next_run is no valid
\* timestamp, the selection returns such a task from the head of the pending
\* list, and the loop has it as the task to execute next.
C24_InvalidNextRunIsRunNext ==
    [][pc' # pc /\ pc = "select" /\ SomeInvalid
          => /\ call'.kind = "task"
             /\ call'.from = "pending"
             /\ ~Valid(call'.task.command)
             /\ pending_task'[1] = call'.task
             /\ task' = call'.task
             /\ pc' = "ready"]_vars

\* The step in which loop() finds the server recovered and goes on to the
\* selection.
RecoveryStep ==
    /\ pc \in {"top", "available"}
    /\ pc' = "select"
    /\ server
    /\ Observe(checker, TRUE).recover

\* C25 as stated: when the checker reports a recovery at the start of an
\* iteration, Restart is stored enabled with next_run = now (to the second)
\* before the selection, and the next task body the loop runs is Restart's,
\* in the first iteration of a fresh loop as in any other.
C25_RestartRunsAfterRecovery ==
    /\ [][RecoveryStep
             => data'["Restart"] =
                   [Enable |-> TRUE, NextRun |-> WholeSecond(now)]]_vars
    /\ [][pc' # pc /\ pc = "ready" /\ recalled
             => BodyRan("Restart") /\ pc' # "top"]_vars

\* A step in which the loop makes a scheduling decision.
Decides == pc = "select" /\ pc' # pc

\* C27 as stated: a decision that finds no task pending sets the flag, and
\* the flag then stays set until the loop makes its next decision; a decision
\* that returns a pending task leaves the flag cleared.
C27_FlagLastsToTheNextDecision ==
    /\ [][Decides /\ call'.from # "pending" => is_hoarding_task']_vars
    /\ [][~Decides /\ is_hoarding_task => is_hoarding_task']_vars
    /\ [][Decides /\ call'.from = "pending" => ~is_hoarding_task']_vars

\* C27: a decision that finds no task pending sets the flag, and a decision
\* that returns a pending task clears it.  The flag stays set only while
\* get_next_task() of the loop has not returned: through the idle wait, and
\* into a decision made again after a config reload or after the Restart
\* call of close_game.  It is cleared when the task goes to loop(), so every
\* decision after a task was run or skipped partitions by now itself.
C27_FlagLastsOnlyWithinOneSelection ==
    /\ [][Decides /\ call'.from = "pending" => ~is_hoarding_task']_vars
    /\ [][Decides /\ call'.from # "pending" /\ pc' # "ready"
             => is_hoarding_task']_vars
    /\ [][pc = "wait" /\ pc' = "select"
             => is_hoarding_task /\ is_hoarding_task']_vars
    /\ [][pc' = "ready" /\ pc # "ready" => ~is_hoarding_task']_vars
    /\ [][pc' = "select" /\ pc \in {"top", "available"} /\ phase = "executed"
             => ~is_hoarding_task']_vars

\* A waiting task was returned, waited for and run, and the decision after
\* it was made with the flag cleared.
C27_Witness ==
    /\ phase = "executed"
    /\ failure_record["Dungeon"] = 1
    /\ pc = "wait"
    /\ call.made
    /\ ~call.flag
    /\ call.from = "waiting"
    /\ is_hoarding_task
    /\ now > LoopStart

\* ======================================================================
\* Properties of the config object, checked under SpecStore
\* ======================================================================
\* A multi_set scope is open.
ScopeOpen == cfg.wrappers # <<>>

\* The step is an assignment to a bound field.
Assigns == cfg'.op = "assign" /\ cfg' # cfg

\* The step leaves a multi_set scope.
Leaves == Len(cfg'.wrappers) < Len(cfg.wrappers)

\* The step writes the file.
Writes == cfg'.wrote /\ cfg' # cfg

\* The stored file holds the values of overlay m at the paths m sets.
Holds(d, m) ==
    \A path \in m.keys :
       IF path[2] = "Enable"
       THEN d[path[1]].Enable = m.val[path[1]].Enable
       ELSE d[path[1]].NextRun = m.val[path[1]].NextRun

\* C21: while a multi_set scope is open, nested or not, an assignment to a
\* bound field writes nothing to the file and stays in the overlay; leaving
\* a nested scope writes nothing and leaves auto_update off; leaving the
\* outermost scope with assignments pending writes the file once, with all
\* of them, empties the overlay and turns auto_update on; and an assignment
\* outside any scope is written at once.
C21_BatchIsFlushedOnce ==
    /\ [][Assigns /\ ScopeOpen
             => /\ ~Writes
                /\ data' = data
                /\ cfg'.modified.keys # {}
                /\ cfg.modified.keys \subseteq cfg'.modified.keys]_vars
    /\ [][Leaves /\ Len(cfg.wrappers) > 1
             => /\ ~Writes
                /\ data' = data
                /\ cfg'.modified = cfg.modified
                /\ ~cfg'.auto_update]_vars
    /\ [][Leaves /\ Len(cfg.wrappers) = 1
             => /\ cfg'.auto_update
                /\ cfg'.modified.keys = {}
                /\ Writes <=> cfg.modified.keys # {}
                /\ Holds(data', cfg.modified)]_vars
    /\ [][Assigns /\ ~ScopeOpen
             => Writes /\ cfg'.auto_update /\ cfg'.modified.keys = {}]_vars

\* Both fields of the bound task were assigned in a scope and written
\* together when the outermost scope was left.
C21_Witness ==
    /\ cfg.open
    /\ cfg.op = "exit"
    /\ cfg.wrappers = <<>>
    /\ cfg.auto_update
    /\ cfg.wrote
    /\ cfg.flushed.keys = {<<BoundTask, "Enable">>, <<BoundTask, "NextRun">>}
    /\ cfg.modified.keys = {}

\* The step is a load() that follows an operation which wrote the file.
ReadsAfterFlush == cfg.wrote /\ cfg'.op = "load" /\ cfg' # cfg

\* C22 as stated: a flush leaves the overlay empty, and the load() that
\* follows a flush yields data in which every flushed path holds the value
\* that was flushed.
C22_FlushedValuesAreReadBack ==
    /\ [][Writes => cfg'.modified.keys = {}]_vars
    /\ [][ReadsAfterFlush => Holds(cfg'.data, cfg.flushed)]_vars

\* The step is a schedule mutation of one task, made with nothing else
\* pending in the overlay.
MutatesSchedule ==
    /\ cfg'.op \in {"task_delay", "task_call"}
    /\ cfg' # cfg
    /\ cfg.modified.keys = {}

\* C23 as stated: task_delay or task_call on a task leaves the stored Enable
\* and NextRun of every other task as they were.
C23_OtherTasksAreUntouched ==
    [][MutatesSchedule
          => \A c \in Commands \ {cfg'.target} : data'[c] = data[c]]_vars

\* The step is a task_delay() of the bound task.
Delays == cfg'.op = "task_delay" /\ cfg' # cfg

\* C33 as stated: a task_delay() made while a multi_set scope is open writes
\* nothing to the file; its NextRun stays in the overlay until the scope is
\* left.
C33_DelayInScopeIsBuffered ==
    [][Delays /\ ScopeOpen
          => /\ ~Writes
             /\ data' = data
             /\ <<BoundTask, "NextRun">> \in cfg'.modified.keys]_vars

\* The step is a task_call().
Calls == cfg'.op = "task_call" /\ cfg' # cfg

\* What a scheduled task holds: enabled, to run at the second of the call.
ScheduledNow == [Enable |-> TRUE, NextRun |-> WholeSecond(now)]

\* C32: task_call returns True exactly when it scheduled the task: the file
\* (with auto_update on) or the overlay (in a multi_set scope) then holds
\* Enable = true and NextRun = now to the second for it.  When it returns
\* False, which it does only for a disabled task, or raises ScriptError,
\* which it does only for a task the config does not have, the overlay and
\* the file are as before.
C32_TaskCallReportsWhatItDid ==
    /\ [][Calls /\ cfg'.result = "True"
             => IF cfg.auto_update
                THEN /\ Writes
                     /\ data'[cfg'.target] = ScheduledNow
                     /\ cfg'.modified.keys = {}
                ELSE /\ data' = data
                     /\ {cfg'.target} \X {"Enable", "NextRun"}
                           \subseteq cfg'.modified.keys
                     /\ cfg'.modified.val[cfg'.target] = ScheduledNow]_vars
    /\ [][Calls /\ cfg'.result # "True"
             => /\ data' = data
                /\ cfg'.modified = cfg.modified
                /\ cfg'.data = cfg.data
                /\ ~Writes]_vars
    /\ [][Calls /\ cfg'.result = "False"
             => ~cfg.data[cfg'.target].Enable]_vars
    /\ [][Calls /\ cfg'.result = "ScriptError"
             => cfg'.target \notin DOMAIN cfg.data]_vars
    /\ [][Calls => cfg'.result \in {"True", "False", "ScriptError"}]_vars

\* A disabled Restart was called with force_call and written enabled, to
\* run now.
C32_Witness ==
    /\ cfg.open
    /\ cfg.op = "task_call"
    /\ cfg.result = "True"
    /\ cfg.wrote
    /\ data["Restart"] = [Enable |-> TRUE, NextRun |-> WholeSecond(now)]
    /\ cfg.flushed.keys = {"Restart"} \X {"Enable", "NextRun"}

\* The step is a load().
Loads == cfg'.op = "load" /\ cfg' # cfg

\* The latest NextRun config_override leaves alone at the time of the step:
\* 24 hours less one second from now cut to the second.
LatestKept == WholeSecond(now) + Minutes(24 * 60) - TicksPerSecond

\* Task c is in the pending list of a decision made on data d at time t with
\* the hoarding flag cleared.
PendingAt(d, c, t) ==
    LET q == get_next_task(d, order, SCHEDULER_PRIORITY, TaskHoardingDuration,
                           FALSE, t)
    IN \E i \in DOMAIN q.pending : q.pending[i].command = c

\* C38 as stated: after a load() no task's NextRun is later than 24 hours
\* from the time of the load.
C38_NoNextRunBeyondTheLimit ==
    [][Loads => \A c \in Commands :
                   cfg'.data[c].NextRun <= now + Minutes(24 * 60)]_vars

\* C38: after a load(), a NextRun that is not pending in the overlay is at
\* most 24 hours less one second from now cut to the second: a stored value
\* beyond that is replaced by now cut to the second, which makes an enabled
\* task pending at a decision made with the hoarding flag cleared, and any
\* other stored value is kept.  A NextRun pending in the overlay is applied
\* after the limit and is loaded as it is.
C38_LoadLimitsStoredNextRun ==
    [][Loads => \A c \in Commands :
          IF <<c, "NextRun">> \in cfg.modified.keys
          THEN cfg'.data[c].NextRun = cfg.modified.val[c].NextRun
          ELSE /\ cfg'.data[c].NextRun <= LatestKept
               /\ IF data[c].NextRun > LatestKept
                  THEN /\ cfg'.data[c].NextRun = WholeSecond(now)
                       /\ cfg'.data[c].Enable => PendingAt(cfg'.data, c, now)
                  ELSE cfg'.data[c].NextRun = data[c].NextRun]_vars

\* A task stored beyond the limit was loaded with NextRun = now to the
\* second.
C38_Witness ==
    /\ cfg.open
    /\ cfg.op = "load"
    /\ data["Rogue"] = [Enable |-> TRUE, NextRun |-> FarFuture]
    /\ cfg.data["Rogue"] = [Enable |-> TRUE, NextRun |-> WholeSecond(now)]

\* ======================================================================
\* The hoarding flag as state of the class, checked under SpecNext
\* ======================================================================
\* The commands a config instance reading store d puts in its pending list
\* at time t, as the class attribute is_hoarding_task stands at `flag`.
PendingOf(d, flag, t) ==
    LET q == get_next_task(d, order, SCHEDULER_PRIORITY, TaskHoardingDuration,
                           flag, t)
    IN {q.pending[i].command : i \in DOMAIN q.pending}

\* C31: a get_next() call on one config instance does not change how another
\* config instance of the same process, reading the same store at the same
\* time, partitions its tasks into pending and waiting.
C31_OtherInstancePartitionsAlike ==
    [][call'.made /\ call' # call
          => PendingOf(data, is_hoarding_task', now)
                = PendingOf(data, is_hoarding_task, now)]_vars

\* ======================================================================
\* task_switched(), called by the body of the selected task
\* ======================================================================
\* AzurLaneConfig.task_switched(), lines 571-582, for the result r of its
\* get_next() call: True if the stop event is set, or if the task get_next()
\* returns is not equal (Function.__eq__) to the task the config holds.
task_switched(stop, prev, r) ==
    IF ShouldStop(stop) THEN TRUE ELSE ~FunctionEq(prev, r.task)

\* The body of the selected task calls config.task_switched(): with the stop
\* event set it returns True at once; otherwise it loads the store and calls
\* get_next(), which sets the task lists and the class flag, and compares.
\* The process goes on in the body ("continue") or is told to stop the task
\* ("switch"); RequestHumanTakeover of get_next() is not caught here.
TaskSwitched ==
    /\ pc = "ready"
    /\ LET r == get_next(ConfigOverride(data, now), order, SCHEDULER_PRIORITY,
                         TaskHoardingDuration, is_hoarding_task, now) IN
       IF ShouldStop(stop_event)
       THEN /\ pc' = "switch"
            /\ UNCHANGED <<pending_task, waiting_task, is_hoarding_task, call,
                           reason>>
       ELSE /\ pending_task' = r.pending
            /\ waiting_task' = r.waiting
            /\ is_hoarding_task' = r.hoarding
            /\ call' = [made |-> TRUE, flag |-> is_hoarding_task, now |-> now,
                        kind |-> r.kind, from |-> r.from, task |-> r.task]
            /\ IF r.kind = "raise"
               THEN pc' = "uncaught" /\ reason' = "RequestHumanTakeover"
               ELSE /\ pc' = IF task_switched(stop_event, task, r)
                             THEN "switch" ELSE "continue"
                    /\ reason' = reason
    /\ UNCHANGED <<data, order, SCHEDULER_PRIORITY, TaskHoardingDuration, now,
                   changed, WhenTaskQueueEmpty, task, is_first_task,
                   failure_record, stop_event, server, checker, site, success,
                   last, notified, streak, outages, phase>>
    /\ UNCHANGED <<recalled, cfg, pledge, stuck>>

\* The process from its start to the first call of task_switched() by a
\* task body, with the idle strategy that waits in place.
InitSwitch ==
    /\ Init
    /\ WhenTaskQueueEmpty = "stay_there"

NextSwitch ==
    \/ SetStopEvent
    \/ LoopServer
    \/ Select
    \/ WaitPoll
    \/ WaitDone
    \/ TaskSwitched

SpecSwitch == InitSwitch /\ [][NextSwitch]_vars

\* The step is a call of task_switched() that returned.
Asked == pc = "ready" /\ pc' \in {"continue", "switch"}

\* The decision task_switched() made found task c due and returned it.
StillFirstDue(c) ==
    /\ call'.kind = "task"
    /\ call'.from = "pending"
    /\ call'.task.command = c

\* C35: with the stop event not set and the store as it was when the running
\* task was selected, a task that is still the first due task is told to
\* continue, also when it was selected as a waiting task and started after the
\* idle wait with a hoarding duration.
C35_UnchangedTaskContinues ==
    [][Asked /\ ~stop_event /\ StillFirstDue(task.command)
          => pc' = "continue"]_vars

\* ======================================================================
\* Restart before the task it was scheduled for, checked under Spec
\* ======================================================================
\* The step starts the body of task c.
Starts(c) == pc = "ready" /\ last'.command = Lower(c) /\ last = NoRun

\* C36: after run() handled a fault of a task body by calling Restart, and
\* while Restart is enabled in the store (it is first in the priority list),
\* the body of the failed task is not started again before the body of
\* Restart: for every hoarding duration, and every value of the hoarding flag
\* the loop starts a body with.
C36_RestartRunsBeforeTheFailedTask ==
    [][\A c \in Commands \ {"Restart"} :
          Starts(c) /\ c \in pledge.fault => ~data["Restart"].Enable]_vars

\* Dungeon failed with a fault that called Restart, and the body of Restart
\* has run since, with a hoarding duration.
C36_Witness ==
    /\ last.command = "restart"
    /\ failure_record["Dungeon"] = 1
    /\ pledge.fault = {}
    /\ TaskHoardingDuration > 0
    /\ SCHEDULER_PRIORITY[1] = "Restart"

\* C37: with close_game, after the wait for a task other than Restart has
\* elapsed and Restart was called, the next task body started is Restart's,
\* for every hoarding duration.
C37_RestartRunsAfterTheWait ==
    [][\A c \in Commands \ {"Restart"} : ~(Starts(c) /\ pledge.waited # "")]_vars

\* ======================================================================
\* The stuck watchdog of the device: SpecStuck
\* ======================================================================
\* Timer(60, count=60) of Device.__init__: the limit in seconds and the
\* number of checks.
STUCK_LIMIT == 60

STUCK_COUNT == 60

\* Seconds the clock advances by between two operations of the device.
StuckStepSeconds == 20
\* Latest time on the clock, in seconds.
MaxStuckSeconds == 130
\* Most checks counted since a reset.
MaxChecks == 62

\* Variant: the number of checks is not looked at.
Reached_TimeOnly(t, current, n) == t - current > Seconds(STUCK_LIMIT)

\* Timer.reached() after its increment of _reach_count to n: the limit is
\* exceeded and so is the count.
Reached(t, current, n) ==
    t - current > Seconds(STUCK_LIMIT) /\ n > STUCK_COUNT

\* Timer.reset(), and Timer.start() of a timer that was not started.
TimerReset(w, t) == [w EXCEPT !.current = t, !.reach_count = 0]

\* Device.__init__, line 129: the stuck timer is started.  The app runs or
\* not; `reset_at` and `checks` are history: the time of the last reset and
\* the calls of stuck_record_check() since.
InitStuck ==
    /\ data \in [Commands -> {[Enable |-> TRUE, NextRun |-> DEFAULT_TIME]}]
    /\ order = Canonical
    /\ SCHEDULER_PRIORITY \in LoopPriorities
    /\ TaskHoardingDuration = 0
    /\ is_hoarding_task = TRUE
    /\ now = LoopStart
    /\ pending_task = <<>>
    /\ waiting_task = <<>>
    /\ call = NoCall
    /\ changed = FALSE
    /\ LoopIdle
    /\ recalled = FALSE
    /\ pledge = NoPledge
    /\ cfg = NoCfg
    /\ \E running \in BOOLEAN :
          stuck = [made |-> TRUE, current |-> now, reach_count |-> 0,
                   running |-> running, enabled |-> TRUE, op |-> "init",
                   raised |-> "", reset_at |-> now, checks |-> 0]

StuckFrame ==
    UNCHANGED <<data, order, SCHEDULER_PRIORITY, TaskHoardingDuration,
                is_hoarding_task, pending_task, waiting_task, call, changed,
                loopVars, recalled, cfg, pledge>>

\* Time passes between two operations of the device.
StuckTick ==
    /\ now + Seconds(StuckStepSeconds) <= Seconds(MaxStuckSeconds)
    /\ now' = now + Seconds(StuckStepSeconds)
    /\ stuck' = [stuck EXCEPT !.op = "tick", !.raised = ""]
    /\ StuckFrame

\* The app dies, or is started from outside (what app_is_running() reads).
AppChange ==
    /\ stuck' = [stuck EXCEPT !.running = ~@, !.op = "app", !.raised = ""]
    /\ now' = now
    /\ StuckFrame

\* stuck_record_clear(), called by handle_control_check() (a click),
\* app_start(), app_stop() and loop() when it starts a task.
StuckRecordClear ==
    /\ \E by \in {"click", "app_start", "app_stop", "task"} :
          stuck' = [TimerReset(stuck, now) EXCEPT
                       !.running = IF by = "app_start" THEN TRUE
                                   ELSE IF by = "app_stop" THEN FALSE
                                   ELSE @,
                       !.op = by, !.raised = "",
                       !.reset_at = now, !.checks = 0]
    /\ now' = now
    /\ StuckFrame

\* disable_stuck_detection(): stuck_record_check becomes an empty function.
DisableStuckDetection ==
    /\ stuck.enabled
    /\ stuck' = [stuck EXCEPT !.enabled = FALSE, !.op = "disable",
                              !.raised = ""]
    /\ now' = now
    /\ StuckFrame

\* stuck_record_check(), called by screenshot() and dump_hierarchy().
StuckRecordCheck ==
    /\ stuck.checks < MaxChecks
    /\ LET n == stuck.reach_count + 1 IN
       stuck' =
          IF ~stuck.enabled
          THEN [stuck EXCEPT !.op = "check", !.raised = "",
                             !.checks = @ + 1]
          ELSE IF ~Reached(now, stuck.current, n)
          THEN [stuck EXCEPT !.reach_count = n, !.op = "check",
                             !.raised = "", !.checks = @ + 1]
          ELSE [TimerReset(stuck, now) EXCEPT
                   !.op = "check",
                   !.raised = IF stuck.running THEN "GameStuckError"
                              ELSE "GameNotRunningError",
                   !.reset_at = now, !.checks = 0]
    /\ now' = now
    /\ StuckFrame

NextStuck ==
    \/ StuckTick
    \/ AppChange
    \/ StuckRecordClear
    \/ DisableStuckDetection
    \/ StuckRecordCheck

SpecStuck == InitStuck /\ [][NextStuck]_vars

\* The step is a stuck_record_check() that raised.
Fires == stuck'.op = "check" /\ stuck'.raised # ""

\* C34: stuck_record_check() raises only if more than 60 seconds have
\* elapsed and more than 60 checks were made, this one included, since the
\* stuck timer was last reset; it then resets the timer and raises
\* GameStuckError if the app is running and GameNotRunningError otherwise.
C34_WatchdogFiresOnlyOnTimeout ==
    [][Fires => /\ now - stuck.reset_at > Seconds(60)
                /\ stuck.checks + 1 > 60
                /\ stuck'.current = now
                /\ stuck'.reach_count = 0
                /\ stuck'.raised = IF stuck.running THEN "GameStuckError"
                                   ELSE "GameNotRunningError"]_vars

\* The watchdog fired with the app not running and reset its timer.
C34_Witness ==
    /\ stuck.made
    /\ stuck.op = "check"
    /\ stuck.raised = "GameNotRunningError"
    /\ stuck.current = now

\* ======================================================================
\* Two threads on one config object: SpecRace
\* ======================================================================
\* The thread of the control loop and the thread of ModuleBase.worker
\* (ThreadPoolExecutor(1)).
Threads == {"main", "worker"}

\* Most assignments of a bound field by one thread.
MaxAssigns == 1

\* The bound field a thread assigns: Scheduler.Enable of this task.
FieldOf(t) == IF t = "main" THEN "Dungeon" ELSE "Restart"

\* A thread outside every operation and every multi_set scope.
IdleThread == [pc |-> "idle", scope |-> "none", ret |-> "", left |-> MaxAssigns]

\* One AzurLaneConfig shared by the two threads, auto_update as constructed,
\* self.data as loaded from the file.  `want` is history: the value assigned
\* last to each path.
InitRace ==
    /\ data \in [Commands -> {[Enable |-> FALSE, NextRun |-> DEFAULT_TIME],
                              [Enable |-> TRUE, NextRun |-> DEFAULT_TIME]}]
    /\ order = Canonical
    /\ SCHEDULER_PRIORITY \in LoopPriorities
    /\ TaskHoardingDuration = 0
    /\ is_hoarding_task = TRUE
    /\ now = StoreStart
    /\ pending_task = <<>>
    /\ waiting_task = <<>>
    /\ call = NoCall
    /\ changed = FALSE
    /\ LoopIdle
    /\ recalled = FALSE
    /\ pledge = NoPledge
    /\ stuck = NoDevice
    /\ cfg = [open |-> TRUE, data |-> Load(data, NoOverlay, FALSE, now),
              modified |-> NoOverlay, auto_update |-> TRUE,
              thread |-> [t \in Threads |-> IdleThread], want |-> NoOverlay]

RaceFrame ==
    /\ now' = now
    /\ UNCHANGED <<order, SCHEDULER_PRIORITY, TaskHoardingDuration,
                   is_hoarding_task, pending_task, waiting_task, call,
                   changed, loopVars, recalled, pledge, stuck>>

\* update() returned to __setattr__, or to MultiSetWrapper.__exit__, which
\* then sets auto_update = True (line 820).
Returned(c, t) ==
    IF c.thread[t].ret = "exit"
    THEN [c EXCEPT !.auto_update = TRUE,
                   !.thread[t] = [@ EXCEPT !.pc = "idle", !.scope = "none",
                                           !.ret = ""]]
    ELSE [c EXCEPT !.thread[t] = [@ EXCEPT !.pc = "idle", !.ret = ""]]

\* MultiSetWrapper.__enter__.
RaceEnter ==
    /\ \E t \in Threads :
          /\ cfg.thread[t].pc = "idle"
          /\ cfg.thread[t].scope = "none"
          /\ cfg' = IF cfg.auto_update
                    THEN [cfg EXCEPT !.auto_update = FALSE,
                                     !.thread[t].scope = "owner"]
                    ELSE [cfg EXCEPT !.thread[t].scope = "inner"]
    /\ data' = data
    /\ RaceFrame

\* __setattr__, line 87: self.modified[path] = value.
RaceAssign ==
    /\ \E t \in Threads, v \in BOOLEAN :
          /\ cfg.thread[t].pc = "idle"
          /\ cfg.thread[t].left > 0
          /\ cfg' = [cfg EXCEPT
                        !.modified = SetPath(@, FieldOf(t), "Enable", v),
                        !.want = SetPath(@, FieldOf(t), "Enable", v),
                        !.thread[t] = [@ EXCEPT !.pc = "assigned",
                                                !.left = @ - 1]]
    /\ data' = data
    /\ RaceFrame

\* __setattr__, lines 88-89: if self.auto_update: self.update().
RaceAssigned ==
    /\ \E t \in Threads :
          /\ cfg.thread[t].pc = "assigned"
          /\ cfg' = IF cfg.auto_update
                    THEN [cfg EXCEPT !.thread[t] =
                             [@ EXCEPT !.pc = "load", !.ret = "setattr"]]
                    ELSE [cfg EXCEPT !.thread[t].pc = "idle"]
    /\ data' = data
    /\ RaceFrame

\* MultiSetWrapper.__exit__, lines 818-819: the outermost wrapper calls
\* update().
RaceExit ==
    /\ \E t \in Threads :
          /\ cfg.thread[t].pc = "idle"
          /\ cfg.thread[t].scope # "none"
          /\ cfg' = IF cfg.thread[t].scope = "owner"
                    THEN [cfg EXCEPT !.thread[t] =
                             [@ EXCEPT !.pc = "load", !.ret = "exit"]]
                    ELSE [cfg EXCEPT !.thread[t].scope = "none"]
    /\ data' = data
    /\ RaceFrame

\* update(), lines 358-360: load(), config_override(), bind().
RaceLoad ==
    /\ \E t \in Threads :
          /\ cfg.thread[t].pc = "load"
          /\ cfg' = [cfg EXCEPT
                        !.data = ConfigOverride(
                                    Load(data, cfg.modified, FALSE, now), now),
                        !.thread[t].pc = "save"]
    /\ data' = data
    /\ RaceFrame

\* save(), lines 338-342: nothing to save, or the overlay is applied to
\* self.data.
RaceSaveApply ==
    /\ \E t \in Threads :
          /\ cfg.thread[t].pc = "save"
          /\ cfg' = IF cfg.modified.keys = {}
                    THEN Returned(cfg, t)
                    ELSE [cfg EXCEPT
                             !.data = ApplyModified(@, cfg.modified),
                             !.thread[t].pc = "clear"]
    /\ data' = data
    /\ RaceFrame

\* save(), line 348: self.modified.clear().
RaceSaveClear ==
    /\ \E t \in Threads :
          /\ cfg.thread[t].pc = "clear"
          /\ cfg' = [cfg EXCEPT !.modified = NoOverlay,
                                !.thread[t].pc = "write"]
    /\ data' = data
    /\ RaceFrame

\* save(), line 350: self.write_file(self.config_name, data=self.data).
RaceSaveWrite ==
    /\ \E t \in Threads :
          /\ cfg.thread[t].pc = "write"
          /\ data' = cfg.data
          /\ cfg' = Returned(cfg, t)
    /\ RaceFrame

NextRace ==
    \/ RaceEnter
    \/ RaceAssign
    \/ RaceAssigned
    \/ RaceExit
    \/ RaceLoad
    \/ RaceSaveApply
    \/ RaceSaveClear
    \/ RaceSaveWrite

SpecRace == InitRace /\ [][NextRace]_vars

\* No thread is inside an operation or a multi_set scope.
AllExited ==
    \A t \in Threads : cfg.thread[t].pc = "idle" /\ cfg.thread[t].scope = "none"

\* C39: when both threads assign bound fields of one config, each with or
\* without its own multi_set scope, then once every operation has returned
\* and every scope has exited, the stored file holds the value assigned last
\* to each field, under every interleaving.
C39_NoAssignmentIsLost ==
    AllExited =>
        \A t \in Threads :
            <<FieldOf(t), "Enable">> \in cfg.want.keys
                => data[FieldOf(t)].Enable = cfg.want.val[FieldOf(t)].Enable

====
